---- MODULE Spec2Model ----
(***************************************************************************)
(* Rule evaluation core of sunlesssea.py: Requirement.check, Effect.apply, *)
(* BaseEvent._check / _apply, Action.do and the SaveQuality write rules    *)
(* (value setter, set_to, increase_by with pyramid numbers).               *)
(*                                                                         *)
(* `save` is the container save.qualities: its SaveQuality entries in the   *)
(* order they were added, looked up by id, the latest entry of an id       *)
(* winning.  `possessed` is the JSON list QualitiesPossessedList of the    *)
(* Save: each item is the data of an entry of the container, held as the   *)
(* position of that entry.  The Quality registry is fixed when the ruleset *)
(* is loaded.  Every call of the engine is one action; the variable `last` *)
(* records the call that was made, its arguments, the container before it  *)
(* and what it returned.                                                   *)
(***************************************************************************)
EXTENDS Integers, Sequences, FiniteSets, TLC

VARIABLES qualities, save, possessed, last

vars == <<qualities, save, possessed, last>>

----------------------------------------------------------------------------
(* Bounds of the model *)

MaxValue   == 3
MaxDelta   == 2
MaxRepeats == 2

QualityIds == {1, 2}

Min(a, b) == IF a < b THEN a ELSE b
Max(a, b) == IF a > b THEN a ELSE b

----------------------------------------------------------------------------
(* CheckResult: LOCKED is the empty (falsy) string *)

LOCKED       == ""
DEFAULT      == "DEFAULT"
RARE         == "RAREDEFAULT"
FAILURE      == "Default"
SUCCESS      == "Success"
RARE_FAILURE == "RareDefault"
RARE_SUCCESS == "RareSuccess"

----------------------------------------------------------------------------
(* Quality: the attributes of a registry entry the engine reads *)

Quality == [cap : {0, 2},
            usepyramidnumbers : BOOLEAN,
            pyramidnumberincreaselimit : {0, 1}]

(* a fresh entry at level 1, whatever level is asked for *)
SaveQuality_new_level1(qid, level, modifier) ==
    [id |-> qid, Level |-> 1, XP |-> 0, modifier |-> modifier]

(* SaveQuality.new(qid, level=0, modifier=0): the TEMPLATE (XP 0) with level
   and modifier written into the data as given, not through the setter *)
SaveQuality_new(qid, level, modifier) ==
    [id |-> qid, Level |-> level, XP |-> 0, modifier |-> modifier]

(* Entities.get finding no entry, whatever the Save holds *)
Entities_get_missing(sv, qid) == 0

(* Entities.get on save.qualities: index of the entry with that id, 0 = None.
   Entities.add overwrites the dict slot, so the latest entry wins. *)
Entities_get(sv, qid) ==
    IF \E i \in 1..Len(sv) : sv[i].id = qid
    THEN CHOOSE i \in 1..Len(sv) :
            /\ sv[i].id = qid
            /\ \A j \in 1..Len(sv) : sv[j].id = qid => j <= i
    ELSE 0

(* Entities.add(entity) on save.qualities: the entry takes the dict slot of
   its id and goes to the end of _order; the JSON list is not touched *)
Entities_add(sv, entity) == Append(sv, entity)

(* Save.add_quality(qid, level=0, modifier=0): the container afterwards *)
Save_add_quality(sv, qid, level, modifier) ==
    Entities_add(sv, SaveQuality_new(qid, level, modifier))

(* QualitiesPossessedList after the calls that took the container from sv to
   sv1 through Save.add_quality only: the data of every new entry appended *)
Save_add_quality_list(pl, sv, sv1) ==
    pl \o [i \in 1..(Len(sv1) - Len(sv)) |-> Len(sv) + i]

(* Save.dump()['QualitiesPossessedList']: the data of the listed entries *)
Save_dump(sv, pl) == [i \in 1..Len(pl) |-> sv[pl[i]]]

(* the setter without the test for a negative value *)
SaveQuality_value_set_unchecked(sq, q, value) ==
    LET v == IF q.cap # 0 /\ value > q.cap THEN q.cap ELSE value
    IN  [sq EXCEPT !.Level = v]

(* the setter clamping a negative value to 0 *)
SaveQuality_value_set_floor(sq, q, value) ==
    LET v == IF q.cap # 0 /\ value > q.cap THEN q.cap ELSE value
    IN  [sq EXCEPT !.Level = IF v < 0 THEN 0 ELSE v]

(* the setter without the cap *)
SaveQuality_value_set_uncapped(sq, q, value) ==
    IF value < 0 THEN sq ELSE [sq EXCEPT !.Level = value]

(* SaveQuality.value setter *)
SaveQuality_value_set(sq, q, value) ==
    LET v == IF q.cap # 0 /\ value > q.cap THEN q.cap ELSE value
    IN  IF v < 0 THEN sq ELSE [sq EXCEPT !.Level = v]

(* pyramid_limit without PyramidNumberIncreaseLimit: the value itself *)
SaveQuality_pyramid_limit_value(sq, q) == sq.Level

(* SaveQuality.pyramid_limit *)
SaveQuality_pyramid_limit(sq, q) ==
    LET value == sq.Level
        limit == IF q.pyramidnumberincreaselimit # 0
                 THEN q.pyramidnumberincreaselimit ELSE value
    IN  Min(value, limit)

(* the loop body of increase_by levelling up when xp reaches the limit *)
RECURSIVE PyramidSteps_atleast(_, _, _)
PyramidSteps_atleast(sq, q, n) ==
    IF n <= 0 THEN sq
    ELSE LET s1 == [sq EXCEPT !.XP = sq.XP + 1]
             s2 == IF s1.XP >= SaveQuality_pyramid_limit(s1, q)
                   THEN [SaveQuality_value_set(s1, q, s1.Level + 1)
                            EXCEPT !.XP = 0]
                   ELSE s1
         IN  PyramidSteps_atleast(s2, q, n - 1)

(* the loop body of increase_by levelling up without resetting xp *)
RECURSIVE PyramidSteps_carrying(_, _, _)
PyramidSteps_carrying(sq, q, n) ==
    IF n <= 0 THEN sq
    ELSE LET s1 == [sq EXCEPT !.XP = sq.XP + 1]
             s2 == IF s1.XP > SaveQuality_pyramid_limit(s1, q)
                   THEN SaveQuality_value_set(s1, q, s1.Level + 1)
                   ELSE s1
         IN  PyramidSteps_carrying(s2, q, n - 1)

(* the loop body of increase_by for pyramid numbers, run n times *)
RECURSIVE PyramidSteps(_, _, _)
PyramidSteps(sq, q, n) ==
    IF n <= 0 THEN sq
    ELSE LET s1 == [sq EXCEPT !.XP = sq.XP + 1]
             s2 == IF s1.XP > SaveQuality_pyramid_limit(s1, q)
                   THEN [SaveQuality_value_set(s1, q, s1.Level + 1)
                            EXCEPT !.XP = 0]
                   ELSE s1
         IN  PyramidSteps(s2, q, n - 1)

(* increase_by assigning the amount instead of adding it *)
SaveQuality_increase_by_assign(sq, q, value) ==
    IF ~q.usepyramidnumbers
    THEN SaveQuality_value_set(sq, q, value)
    ELSE PyramidSteps(sq, q, value)

(* increase_by taking a negative amount off the value of any quality *)
SaveQuality_increase_by_signed(sq, q, value) ==
    IF ~q.usepyramidnumbers \/ value < 0
    THEN SaveQuality_value_set(sq, q, sq.Level + value)
    ELSE PyramidSteps(sq, q, value)

(* SaveQuality.increase_by *)
SaveQuality_increase_by(sq, q, value) ==
    IF ~q.usepyramidnumbers
    THEN SaveQuality_value_set(sq, q, sq.Level + value)
    ELSE PyramidSteps(sq, q, value)

(* the xp setter: the value is written as it is, with no test *)
SaveQuality_xp_set(sq, value) == [sq EXCEPT !.XP = value]

(* set_to writing a fresh entry: the modifier is lost *)
SaveQuality_set_to_fresh(sq, q, value, xp) ==
    SaveQuality_xp_set(
        SaveQuality_value_set([sq EXCEPT !.modifier = 0], q, value), xp)

(* set_to writing the value only: xp stays as it was *)
SaveQuality_set_to_keeping(sq, q, value, xp) ==
    SaveQuality_value_set(sq, q, value)

(* SaveQuality.set_to(value, xp): the value through its setter, then xp
   through its own; what follows in the code only logs warnings *)
SaveQuality_set_to(sq, q, value, xp) ==
    SaveQuality_xp_set(SaveQuality_value_set(sq, q, value), xp)

----------------------------------------------------------------------------
(* QualityOperator: an Effect or a Requirement is a quality id and the
   operators kept by __init__ (name -> value), in the order of the data *)

(* _OPS with Level and SetToExactly in each other's place *)
Effect_OPS_swapped == <<"SetToExactly", "ChangeByAdvanced", "Level",
                        "SetToExactlyAdvanced", "OnlyIfAtLeast",
                        "OnlyIfNoMoreThan">>

Effect_OPS == <<"Level", "ChangeByAdvanced", "SetToExactly",
                "SetToExactlyAdvanced", "OnlyIfAtLeast", "OnlyIfNoMoreThan">>

Requirement_OPS == <<"DifficultyLevel", "DifficultyAdvanced", "MinLevel",
                     "MinAdvanced", "MaxLevel", "MaxAdvanced">>

(* the loop of apply walking _OPS forwards *)
Forward(s) == s

Reverse(s) == [i \in 1..Len(s) |-> s[Len(s) + 1 - i]]

Replace(sv, idx, sq) == [sv EXCEPT ![idx] = sq]

(* the loop of Effect.apply over reversed(_OPS); `calls` logs the calls made
   on the SaveQuality.  A failed guard returns at once. *)
RECURSIVE Effect_apply_ops(_, _, _, _, _)
Effect_apply_ops(effect, ops, sq, q, calls) ==
    IF ops = <<>> THEN [sq |-> sq, calls |-> calls]
    ELSE LET op   == Head(ops)
             rest == Tail(ops)
         IN  IF op \notin DOMAIN effect.operator
             THEN Effect_apply_ops(effect, rest, sq, q, calls)
             ELSE LET value == effect.operator[op]
                  IN  CASE op = "OnlyIfAtLeast" ->
                             IF sq.Level < value
                             THEN [sq |-> sq, calls |-> calls]
                             ELSE Effect_apply_ops(effect, rest, sq, q, calls)
                        [] op = "OnlyIfNoMoreThan" ->
                             IF sq.Level > value
                             THEN [sq |-> sq, calls |-> calls]
                             ELSE Effect_apply_ops(effect, rest, sq, q, calls)
                        [] op = "SetToExactly" ->
                             Effect_apply_ops(effect, rest,
                                 SaveQuality_set_to(sq, q, value, 0), q,
                                 Append(calls, "set_to"))
                        [] op = "Level" ->
                             Effect_apply_ops(effect, rest,
                                 SaveQuality_increase_by(sq, q, value), q,
                                 Append(calls, "increase_by"))
                        [] OTHER ->
                             Effect_apply_ops(effect, rest, sq, q,
                                 Append(calls, "not implemented"))

(* Effect.apply(save): the Save afterwards and the calls made *)
Effect_apply(effect, sv, reg) ==
    LET found == Entities_get(sv, effect.quality)
        sv1   == IF found = 0 THEN Save_add_quality(sv, effect.quality, 0, 0)
                 ELSE sv
        idx   == IF found = 0 THEN Len(sv1) ELSE found
        r     == Effect_apply_ops(effect, Reverse(Effect_OPS), sv1[idx],
                                  reg[effect.quality], <<>>)
    IN  [save |-> Replace(sv1, idx, r.sq), calls |-> r.calls]

(* the loop of check with a MinLevel that the value has to exceed *)
RECURSIVE Requirement_check_ops_strict(_, _)
Requirement_check_ops_strict(items, sq) ==
    IF items = <<>> THEN DEFAULT
    ELSE LET op    == Head(items).op
             value == Head(items).value
         IN  CASE op = "MinLevel" ->
                    IF sq.Level <= value THEN LOCKED
                    ELSE Requirement_check_ops_strict(Tail(items), sq)
               [] op = "MaxLevel" ->
                    IF sq.Level > value THEN LOCKED
                    ELSE Requirement_check_ops_strict(Tail(items), sq)
               [] OTHER -> LOCKED

(* the loop of Requirement.check over self.operator.items() *)
RECURSIVE Requirement_check_ops(_, _)
Requirement_check_ops(items, sq) ==
    IF items = <<>> THEN DEFAULT
    ELSE LET op    == Head(items).op
             value == Head(items).value
         IN  CASE op = "MinLevel" ->
                    IF sq.Level < value THEN LOCKED
                    ELSE Requirement_check_ops(Tail(items), sq)
               [] op = "MaxLevel" ->
                    IF sq.Level > value THEN LOCKED
                    ELSE Requirement_check_ops(Tail(items), sq)
               [] OTHER -> LOCKED

(* check() comparing the effective value (Level + modifier) *)
Requirement_check_effective(req, sv) ==
    LET found == Entities_get(sv, req.quality)
        sq    == IF found = 0 THEN SaveQuality_new(req.quality, 0, 0)
                 ELSE sv[found]
    IN  Requirement_check_ops(req.operator,
                              [sq EXCEPT !.Level = sq.Level + sq.modifier])

(* check() skipping the operators it does not implement *)
Requirement_check_skipping(req, sv) ==
    LET found == Entities_get(sv, req.quality)
        sq    == IF found = 0 THEN SaveQuality_new(req.quality, 0, 0)
                 ELSE sv[found]
        impl(item) == item.op \in {"MinLevel", "MaxLevel"}
    IN  Requirement_check_ops(SelectSeq(req.operator, impl), sq)

(* Requirement.check(save) *)
Requirement_check(req, sv) ==
    LET found == Entities_get(sv, req.quality)
        sq    == IF found = 0 THEN SaveQuality_new(req.quality, 0, 0)
                 ELSE sv[found]
    IN  Requirement_check_ops(req.operator, sq)

(* check() taking its entry the way apply does, with save.add_quality *)
Requirement_check_save_adding(req, sv) ==
    IF Entities_get(sv, req.quality) = 0
    THEN Save_add_quality(sv, req.quality, 0, 0) ELSE sv

(* the Save after Requirement.check(save): check reaches it through
   save.qualities.get only, and SaveQuality.new builds an entry that is not
   put in the Save *)
Requirement_check_save(req, sv) == sv

(* the Save after BaseEvent._check(save): that of the checks it made, up to
   the first one LOCKED *)
RECURSIVE BaseEvent_check_save(_, _)
BaseEvent_check_save(requirements, sv) ==
    IF requirements = <<>> THEN sv
    ELSE LET sv1 == Requirement_check_save(Head(requirements), sv)
         IN  IF Requirement_check(Head(requirements), sv) = LOCKED THEN sv1
             ELSE BaseEvent_check_save(Tail(requirements), sv1)

(* _check looking at its first requirement only *)
BaseEvent_check_loop_first(requirements, sv, output) ==
    IF requirements = <<>> THEN output
    ELSE IF Requirement_check(Head(requirements), sv) = LOCKED THEN LOCKED
    ELSE output

(* BaseEvent._check: the loop over self.requirements *)
RECURSIVE BaseEvent_check_loop(_, _, _)
BaseEvent_check_loop(requirements, sv, output) ==
    IF requirements = <<>> THEN output
    ELSE LET result == Requirement_check(Head(requirements), sv)
         IN  IF result = LOCKED THEN LOCKED
             ELSE BaseEvent_check_loop(Tail(requirements), sv,
                     IF result = FAILURE THEN FAILURE
                     ELSE IF result = SUCCESS /\ output # FAILURE THEN SUCCESS
                     ELSE output)

BaseEvent_check(requirements, sv) ==
    BaseEvent_check_loop(requirements, sv, DEFAULT)

(* the loop of _check where a SUCCESS overrides an earlier FAILURE *)
RECURSIVE BaseEvent_check_results_lastwins(_, _)
BaseEvent_check_results_lastwins(results, output) ==
    IF results = <<>> THEN output
    ELSE LET result == Head(results)
         IN  IF result = LOCKED THEN LOCKED
             ELSE BaseEvent_check_results_lastwins(Tail(results),
                     IF result = FAILURE THEN FAILURE
                     ELSE IF result = SUCCESS THEN SUCCESS
                     ELSE output)

(* the loop of BaseEvent._check on the results its requirements return *)
RECURSIVE BaseEvent_check_results(_, _)
BaseEvent_check_results(results, output) ==
    IF results = <<>> THEN output
    ELSE LET result == Head(results)
         IN  IF result = LOCKED THEN LOCKED
             ELSE BaseEvent_check_results(Tail(results),
                     IF result = FAILURE THEN FAILURE
                     ELSE IF result = SUCCESS /\ output # FAILURE THEN SUCCESS
                     ELSE output)

(* _apply giving up at the first effect with an operator that is not
   implemented *)
RECURSIVE BaseEvent_apply_aborting(_, _, _)
BaseEvent_apply_aborting(effects, sv, reg) ==
    IF effects = <<>> THEN [save |-> sv, applied |-> 0]
    ELSE LET e == Effect_apply(Head(effects), sv, reg)
             r == BaseEvent_apply_aborting(Tail(effects), e.save, reg)
         IN  IF \E i \in DOMAIN e.calls : e.calls[i] = "not implemented"
             THEN [save |-> e.save, applied |-> 1]
             ELSE [save |-> r.save, applied |-> r.applied + 1]

(* _apply taking the effects from the last to the first *)
RECURSIVE BaseEvent_apply_reversed(_, _, _)
BaseEvent_apply_reversed(effects, sv, reg) ==
    IF effects = <<>> THEN [save |-> sv, applied |-> 0]
    ELSE LET r == BaseEvent_apply_reversed(Tail(effects), sv, reg)
         IN  [save |-> Effect_apply(Head(effects), r.save, reg).save,
              applied |-> r.applied + 1]

(* BaseEvent._apply: every effect in order, each on the Save left by the
   previous one *)
RECURSIVE BaseEvent_apply(_, _, _)
BaseEvent_apply(effects, sv, reg) ==
    IF effects = <<>> THEN [save |-> sv, applied |-> 0]
    ELSE LET r == BaseEvent_apply(Tail(effects),
                                  Effect_apply(Head(effects), sv, reg).save, reg)
         IN  [save |-> r.save, applied |-> r.applied + 1]

----------------------------------------------------------------------------
(* Action: its requirements and _outdict (outcome type -> Outcome) *)

Action_OUTCOME_TYPES == <<"DefaultEvent", "RareDefaultEvent",
                          "SuccessEvent", "RareSuccessEvent">>

(* "{}Event".format(result.title()) *)
EventOf(result) ==
    CASE result = DEFAULT -> "DefaultEvent"
      [] result = FAILURE -> "DefaultEvent"
      [] result = SUCCESS -> "SuccessEvent"

(* the rare outcome looked up being the RareSuccessEvent whatever otype is *)
RareOf_success(otype) == "RareSuccessEvent"

(* 'Rare{}'.format(otype) *)
RareOf(otype) ==
    CASE otype = "DefaultEvent" -> "RareDefaultEvent"
      [] otype = "SuccessEvent" -> "RareSuccessEvent"

(* rare.type.replace("Event", "") *)
StripEvent(type) ==
    CASE type = "RareDefaultEvent" -> RARE_FAILURE
      [] type = "RareSuccessEvent" -> RARE_SUCCESS

(* str.upper on the labels do() can produce *)
Upper(label) ==
    CASE label = DEFAULT      -> "DEFAULT"
      [] label = RARE_FAILURE -> "RAREDEFAULT"
      [] label = RARE_SUCCESS -> "RARESUCCESS"

(* the comparison of the draw written with <= *)
RareChosen_inclusive(draw, chance) == draw <= chance

(* random.randrange(100) < rare.chance *)
RareChosen(draw, chance) == draw < chance

(* the loop of Action.do from iteration i on.  draws[k] is what the k-th
   call of random.randrange(100) returns; `drawn` counts the calls made,
   `applied` the Effect.apply calls made, `locked` is the iteration whose
   check was LOCKED (0 if the loop ran to its end). *)
RECURSIVE Action_do_loop(_, _, _, _, _, _)
Action_do_loop(action, i, repeats, draws, reg, acc) ==
    IF i > repeats THEN acc
    ELSE LET result == BaseEvent_check(action.requirements, acc.save)
         IN  IF result = LOCKED THEN [acc EXCEPT !.locked = i]
             ELSE
             LET upper   == (result = DEFAULT)
                 otype   == EventOf(result)
                 hasrare == RareOf(otype) \in DOMAIN action.outdict
                 rare    == action.outdict[RareOf(otype)]
                 draw    == draws[acc.drawn + 1]
                 israre  == hasrare /\ RareChosen(draw, rare.chance)
                 outcome == IF israre THEN rare ELSE action.outdict[otype]
                 res1    == IF israre THEN StripEvent(rare.type) ELSE result
                 res2    == IF upper THEN Upper(res1) ELSE res1
                 r       == BaseEvent_apply(outcome.effects, acc.save, reg)
             IN  Action_do_loop(action, i + 1, repeats, draws, reg,
                    [save     |-> r.save,
                     results  |-> Append(acc.results, res2),
                     outcomes |-> Append(acc.outcomes, outcome.type),
                     drawn    |-> acc.drawn + (IF hasrare THEN 1 ELSE 0),
                     applied  |-> acc.applied + r.applied,
                     locked   |-> 0])

(* do() going on without checking the requirements *)
Action_do_unchecked(action, repeats, sv, draws, reg) ==
    Action_do_loop([action EXCEPT !.requirements = <<>>], 1, repeats, draws,
        reg, [save |-> sv, results |-> <<>>, outcomes |-> <<>>,
              drawn |-> 0, applied |-> 0, locked |-> 0])

(* Action.do(repeats, save, output=list) *)
Action_do(action, repeats, sv, draws, reg) ==
    Action_do_loop(action, 1, repeats, draws, reg,
        [save |-> sv, results |-> <<>>, outcomes |-> <<>>,
         drawn |-> 0, applied |-> 0, locked |-> 0])

----------------------------------------------------------------------------
(* The inputs of the model *)

(* Registries: quality 1 is any kind of quality; quality 2 is a plain
   counter (no cap, no pyramid numbers), as most qualities of the game are.
   PyramidNumberIncreaseLimit is read only when UsePyramidNumbers is set. *)
Registries ==
    {reg \in [QualityIds -> Quality] :
        /\ reg[2] = [cap |-> 0, usepyramidnumbers |-> FALSE,
                     pyramidnumberincreaselimit |-> 0]
        /\ ~reg[1].usepyramidnumbers => reg[1].pyramidnumberincreaselimit = 0}

(* what the engine keeps true of a SaveQuality: 0 <= Level (<= cap), and
   0 <= XP <= pyramid_limit, XP = 0 unless the quality uses pyramid numbers *)
SaveQualityOK(sq, q) ==
    /\ sq.Level >= 0
    /\ q.cap # 0 => sq.Level <= q.cap
    /\ sq.XP >= 0
    /\ sq.XP <= (IF q.usepyramidnumbers THEN SaveQuality_pyramid_limit(sq, q)
                 ELSE 0)

(* the entries a loaded Save can hold for a quality; quality 1 carries a
   modifier (an equipped bonus), quality 2 none *)
SaveQualities(qid, q) ==
    {sq \in [id : {qid}, Level : 0..MaxValue, XP : 0..MaxValue,
             modifier : {qid % 2}] : SaveQualityOK(sq, q)}

(* Saves with at most one entry per quality, in the order of their ids *)
InitialSaves(reg) ==
    {<<>>}
    \cup UNION {{<<a>> : a \in SaveQualities(q, reg[q])} : q \in QualityIds}
    \cup {<<a, b>> : a \in SaveQualities(1, reg[1]),
                     b \in SaveQualities(2, reg[2])}

(* the text of an *Advanced operator is never read by check or apply: 0 *)
EffectValues(op) ==
    CASE op = "Level"            -> (-MaxDelta..MaxDelta) \ {0}
      [] op = "SetToExactly"     -> -1..MaxValue
      [] op = "OnlyIfAtLeast"    -> {1, 2}
      [] op = "OnlyIfNoMoreThan" -> {1, 2}
      [] OTHER                   -> {0}

Range(s) == {s[i] : i \in DOMAIN s}

(* the operator sets of an Effect: at most two operators, or both guards
   and one more *)
EffectOperatorNames ==
    {T \in SUBSET Range(Effect_OPS) :
        \/ Cardinality(T) <= 2
        \/ /\ Cardinality(T) = 3
           /\ {"OnlyIfAtLeast", "OnlyIfNoMoreThan"} \subseteq T}

EffectOperators ==
    UNION {{f \in [S -> -MaxDelta..MaxValue] :
               \A op \in S : f[op] \in EffectValues(op)} :
           S \in EffectOperatorNames}

Effects == [quality : QualityIds, operator : EffectOperators]

RequirementValues(op) ==
    CASE op = "MinLevel" -> 0..2
      [] op = "MaxLevel" -> 0..2
      [] OTHER           -> {0}

RequirementItems ==
    UNION {[op : {op}, value : RequirementValues(op)] :
           op \in Range(Requirement_OPS)}

(* the operators of a Requirement, in data order, each name at most once *)
RequirementOperators ==
    {<<>>} \cup {<<a>> : a \in RequirementItems}
    \cup {s \in {<<a, b>> : a \in RequirementItems, b \in RequirementItems} :
             s[1].op # s[2].op}

Requirements == [quality : QualityIds, operator : RequirementOperators]

----------------------------------------------------------------------------
(* The state machine: one action per call of the engine *)

Bounded(sv) == \A i \in 1..Len(sv) : sv[i].Level <= MaxValue

Init ==
    /\ qualities \in Registries
    /\ save \in InitialSaves(qualities)
    /\ possessed = [i \in 1..Len(save) |-> i]
    /\ last = [op |-> "load", arg |-> <<>>, pre |-> save, ret |-> <<>>]

(* squality.value = v on an entry of the Save (the save editor) *)
ValueWrite(qid, v) ==
    LET idx == Entities_get(save, qid)
        sv  == Replace(save, idx,
                   SaveQuality_value_set(save[idx], qualities[qid], v))
    IN  /\ idx # 0
        /\ Bounded(sv)
        /\ save' = sv
        /\ last' = [op |-> "value", arg |-> [quality |-> qid, value |-> v],
                    pre |-> save, ret |-> <<>>]
        /\ UNCHANGED <<qualities, possessed>>

(* squality.set_to(v, xp) *)
SetTo(qid, v, xp) ==
    LET idx == Entities_get(save, qid)
        sv  == Replace(save, idx,
                   SaveQuality_set_to(save[idx], qualities[qid], v, xp))
    IN  /\ idx # 0
        /\ Bounded(sv)
        /\ save' = sv
        /\ last' = [op |-> "set_to",
                    arg |-> [quality |-> qid, value |-> v, xp |-> xp],
                    pre |-> save, ret |-> <<>>]
        /\ UNCHANGED <<qualities, possessed>>

(* squality.xp = x on an entry of the Save *)
XPWrite(qid, x) ==
    LET idx == Entities_get(save, qid)
    IN  /\ idx # 0
        /\ save' = Replace(save, idx, SaveQuality_xp_set(save[idx], x))
        /\ last' = [op |-> "xp", arg |-> [quality |-> qid, value |-> x],
                    pre |-> save, ret |-> <<>>]
        /\ UNCHANGED <<qualities, possessed>>

(* save.add_quality(qid, level, modifier), called on its own: the entry is
   added whether or not the Save has one of that id, and it is returned *)
AddQuality(qid, level, modifier) ==
    LET sv == Save_add_quality(save, qid, level, modifier)
    IN  /\ save' = sv
        /\ possessed' = Save_add_quality_list(possessed, save, sv)
        /\ last' = [op |-> "add_quality",
                    arg |-> [quality |-> qid, level |-> level,
                             modifier |-> modifier],
                    pre |-> save, ret |-> <<sv[Len(sv)]>>]
        /\ UNCHANGED qualities

(* isinstance(entity, SaveQuality), and whether the object has an id *)
IsSaveQuality(entity) == DOMAIN entity = {"id", "Level", "XP", "modifier"}
HasId(entity) == "id" \in DOMAIN entity

(* Entities.add(entity, check): with check an object that is no SaveQuality
   raises ValueError; reading entity.id of an object without one raises
   AttributeError before anything is written; any other object is added *)
Entities_add_raises(entity, check) ==
    IF check /\ ~IsSaveQuality(entity) THEN <<"ValueError">>
    ELSE IF ~HasId(entity) THEN <<"AttributeError">>
    ELSE <<>>

(* save.qualities.add(entity, check) *)
Add(entity, check) ==
    LET raised == Entities_add_raises(entity, check)
    IN  /\ save' = IF raised = <<>> THEN Entities_add(save, entity)
                   ELSE save
        /\ last' = [op |-> "add", arg |-> [entity |-> entity, check |-> check],
                    pre |-> save, ret |-> raised]
        /\ UNCHANGED <<qualities, possessed>>

(* squality.increase_by(n) *)
IncreaseBy(qid, n) ==
    LET idx == Entities_get(save, qid)
        sv  == Replace(save, idx,
                   SaveQuality_increase_by(save[idx], qualities[qid], n))
    IN  /\ idx # 0
        /\ Bounded(sv)
        /\ save' = sv
        /\ last' = [op |-> "increase_by", arg |-> [quality |-> qid, value |-> n],
                    pre |-> save, ret |-> <<>>]
        /\ UNCHANGED <<qualities, possessed>>

(* effect.apply(save) *)
Apply(effect) ==
    LET r == Effect_apply(effect, save, qualities)
    IN  /\ Bounded(r.save)
        /\ save' = r.save
        /\ possessed' = Save_add_quality_list(possessed, save, r.save)
        /\ last' = [op |-> "apply", arg |-> effect, pre |-> save,
                    ret |-> r.calls]
        /\ UNCHANGED qualities

(* requirement.check(save) *)
Check(req) ==
    /\ save' = Requirement_check_save(req, save)
    /\ last' = [op |-> "check", arg |-> req, pre |-> save,
                ret |-> Requirement_check(req, save)]
    /\ UNCHANGED <<qualities, possessed>>

(* action.check(save), the Action having these requirements *)
CheckAll(requirements) ==
    /\ save' = BaseEvent_check_save(requirements, save)
    /\ last' = [op |-> "check_all", arg |-> requirements, pre |-> save,
                ret |-> BaseEvent_check(requirements, save)]
    /\ UNCHANGED <<qualities, possessed>>

----------------------------------------------------------------------------
(* The Actions of the ruleset *)

Eff(qid, op, value) == [quality |-> qid, operator |-> (op :> value)]
Req(qid, op, value) ==
    [quality |-> qid, operator |-> <<[op |-> op, value |-> value]>>]

SeqsUpTo2(S) == {<<>>} \cup {<<a>> : a \in S} \cup {<<a, b>> : a \in S, b \in S}

RequirementPool ==
    {Req(1, "MinLevel", 1), Req(1, "MaxLevel", 1), Req(2, "MinLevel", 1),
     Req(1, "DifficultyLevel", 0)}

EffectPool ==
    {Eff(1, "Level", -1), Eff(1, "Level", 1), Eff(2, "Level", 1),
     Eff(1, "SetToExactly", 2)}

Outcome(type, chance, effects) ==
    [type |-> type, chance |-> chance, effects |-> effects]

Chances == {0, 50, 100}
Draws   == {0, 49, 50, 99}

(* Effects whose only operator is one apply does not implement, and the
   effect lists mixing one of them with an Effect that writes *)
AdvancedEffects ==
    {Eff(1, "ChangeByAdvanced", 0), Eff(2, "SetToExactlyAdvanced", 0)}

AdvancedOutcomes ==
    UNION {{<<a, e>>, <<e, a>>} :
           a \in AdvancedEffects,
           e \in {Eff(1, "Level", 1), Eff(1, "SetToExactly", 2)}}

(* Actions with a DefaultEvent only *)
PlainActions ==
    {[requirements |-> rs,
      outdict |-> ("DefaultEvent" :> Outcome("DefaultEvent", 0, es))] :
        rs \in SeqsUpTo2(RequirementPool),
        es \in {<<Eff(1, "Level", -1)>>, <<Eff(1, "Level", 1)>>}}
    \cup
    {[requirements |-> <<>>,
      outdict |-> ("DefaultEvent" :> Outcome("DefaultEvent", 0, es))] :
        es \in SeqsUpTo2(EffectPool) \cup AdvancedOutcomes}

(* Actions with a DefaultEvent and a RareDefaultEvent *)
RareActions ==
    {[requirements |-> rs,
      outdict |-> ("DefaultEvent" :>
                       Outcome("DefaultEvent", 0, <<Eff(1, "Level", 1)>>)
                   @@ "RareDefaultEvent" :>
                       Outcome("RareDefaultEvent", c, es))] :
        rs \in {<<>>, <<Req(1, "MaxLevel", 1)>>},
        c \in Chances,
        es \in {<<Eff(1, "Level", -1)>>, <<Eff(2, "Level", 1)>>}}

Actions == PlainActions \cup RareActions

(* Actions with a challenge: a SuccessEvent beside the DefaultEvent, with or
   without their rare variants; with no requirement, or with a
   DifficultyLevel requirement alone or after a MinLevel *)
ChallengeActions ==
    {[requirements |-> rs,
      outdict |-> [t \in types |->
                     Outcome(t, 50,
                             <<Eff(IF t \in {"DefaultEvent", "RareDefaultEvent"}
                                   THEN 1 ELSE 2, "Level", 1)>>)]] :
        rs \in {<<>>, <<Req(1, "DifficultyLevel", 0)>>,
                <<Req(1, "MinLevel", 1), Req(1, "DifficultyLevel", 0)>>},
        types \in {{"DefaultEvent", "SuccessEvent"},
                   Range(Action_OUTCOME_TYPES)}}

(* Actions that sell one unit of a quality while at least m are left: their
   only requirement is MinLevel = m on it and their only outcome a
   DefaultEvent with Level = -1 on it *)
SellActions ==
    {[requirements |-> <<Req(qid, "MinLevel", m)>>,
      outdict |-> ("DefaultEvent" :>
                      Outcome("DefaultEvent", 0, <<Eff(qid, "Level", -1)>>))] :
        qid \in QualityIds, m \in {1, 2}}

(* the requirement lists given to action.check: up to three of these *)
CheckPool ==
    RequirementPool
    \cup {Req(2, "MaxLevel", 0),
          [quality |-> 1,
           operator |-> <<[op |-> "MinLevel", value |-> 1],
                          [op |-> "MaxLevel", value |-> 2]>>]}

CheckLists ==
    SeqsUpTo2(CheckPool)
    \cup {<<a, b, c>> : a \in CheckPool, b \in CheckPool, c \in CheckPool}

HasRare(action) == "RareDefaultEvent" \in DOMAIN action.outdict

(* action.do(repeats, save, output=list), the random source returning draws *)
Do(action, repeats, draws) ==
    LET r == Action_do(action, repeats, save, draws, qualities)
    IN  /\ Bounded(r.save)
        /\ save' = r.save
        /\ possessed' = Save_add_quality_list(possessed, save, r.save)
        /\ last' = [op |-> "do",
                    arg |-> [action |-> action, repeats |-> repeats,
                             draws |-> draws],
                    pre |-> save, ret |-> r]
        /\ UNCHANGED qualities

(* Any sequence of calls, with the values, Effects, Requirements and
   Actions of a small ruleset; set_to is called with xp at its default, the
   way Effect.apply calls it, and with xp 1; action.do is called with
   repeats = 1, a call with more repeats leaving the Save that as many calls
   with one leave *)
SomeValues == {-1, 0, MaxValue}
SomeDeltas == {-MaxDelta, -1, 1, MaxDelta}
SomeXPs    == {0, 1}

SomeEffects ==
    EffectPool
    \cup {Eff(1, "Level", -MaxDelta), Eff(1, "SetToExactly", -1),
          Eff(1, "SetToExactly", MaxValue), Eff(1, "ChangeByAdvanced", 0),
          [quality |-> 1,
           operator |-> ("Level" :> 1 @@ "OnlyIfAtLeast" :> 1)],
          [quality |-> 1,
           operator |-> ("Level" :> 1 @@ "SetToExactly" :> 1)]}

SomeActions ==
    {a \in Actions :
        /\ Len(a.requirements) <= 1
        /\ a.requirements # <<Req(1, "MaxLevel", 1)>>
        /\ Len(a.outdict["DefaultEvent"].effects) = 1
        /\ HasRare(a) =>
              /\ a.outdict["RareDefaultEvent"].chance = 50
              /\ a.outdict["RareDefaultEvent"].effects # <<>>}

Next ==
    \/ \E qid \in QualityIds, v \in SomeValues : ValueWrite(qid, v)
    \/ \E qid \in QualityIds, v \in SomeValues, xp \in SomeXPs :
          SetTo(qid, v, xp)
    \/ \E qid \in QualityIds, n \in SomeDeltas : IncreaseBy(qid, n)
    \/ \E effect \in SomeEffects : Apply(effect)
    \/ \E req \in RequirementPool : Check(req)
    \/ \E action \in SomeActions :
          \E draws \in [1..(IF HasRare(action) THEN 1 ELSE 0) -> {0, 99}] :
             Do(action, 1, draws)

Spec == Init /\ [][Next]_vars

(* One call of the engine on any loaded Save, with every value, Effect,
   Requirement and Action of the model *)
Loaded == last.op = "load"

(* the amounts given to increase_by: the small ones of either sign, and the
   totals 0, 1, 3, 6, ... that take a pyramid quality from 0 to a level *)
Triangular(n) == (n * (n + 1)) \div 2

IncreaseAmounts ==
    (-MaxDelta..(MaxValue + 1)) \cup {Triangular(n) : n \in 0..MaxValue}

(* the xp given to set_to and to the xp setter: negative, 0, in and above
   the range increase_by keeps *)
XPs == -1..(MaxValue + 1)

(* the level and modifier given to save.add_quality: level 0 by default,
   negative, and above every cap and every level of a loaded Save *)
NewLevels == -1..(2 * MaxValue + 1)
Modifiers == 0..2

(* the SaveQuality objects handed to save.qualities.add *)
NewEntities ==
    [id : QualityIds, Level : -1..(MaxValue + 1), XP : {0, MaxValue + 1},
     modifier : {0, 2}]

(* objects handed to save.qualities.add that are no SaveQuality: a Quality
   of the registry, which has an id, and the data dict of an entry, which
   has none *)
OtherObjects ==
    [id : QualityIds] \cup [AssociatedQualityId : QualityIds]

NextCall ==
    \/ \E qid \in QualityIds, v \in -1..MaxValue :
          Loaded /\ ValueWrite(qid, v)
    \/ \E qid \in QualityIds, v \in -1..MaxValue, xp \in XPs :
          Loaded /\ SetTo(qid, v, xp)
    \/ \E qid \in QualityIds, x \in XPs : Loaded /\ XPWrite(qid, x)
    \/ \E qid \in QualityIds, level \in NewLevels, modifier \in Modifiers :
          Loaded /\ AddQuality(qid, level, modifier)
    \/ \E entity \in NewEntities \cup OtherObjects, check \in BOOLEAN :
          Loaded /\ Add(entity, check)
    \/ \E qid \in QualityIds, n \in IncreaseAmounts :
          Loaded /\ IncreaseBy(qid, n)
    \/ \E effect \in Effects : Loaded /\ Apply(effect)
    \/ \E req \in Requirements : Loaded /\ Check(req)
    \/ \E requirements \in CheckLists : Loaded /\ CheckAll(requirements)
    \/ \E action \in Actions \cup ChallengeActions \cup SellActions,
             repeats \in 0..MaxRepeats :
          \E draws \in [1..(IF HasRare(action) THEN repeats ELSE 0)
                         -> Draws] :
             Loaded /\ Do(action, repeats, draws)

CallSpec == Init /\ [][NextCall]_vars

(* Any sequence of effect.apply and action.do calls on a loaded Save, with
   Level and SetToExactly Effects on either quality, the Effects of the
   small ruleset (guarded and not implemented ones among them) and its
   Actions *)
RunEffects ==
    {Eff(qid, "Level", n) : qid \in QualityIds, n \in SomeDeltas}
    \cup {Eff(qid, "SetToExactly", v) : qid \in QualityIds, v \in SomeValues}
    \cup SomeEffects

NextRun ==
    \/ \E effect \in RunEffects : Apply(effect)
    \/ \E action \in SomeActions :
          \E draws \in [1..(IF HasRare(action) THEN MaxRepeats ELSE 0)
                         -> {0, 99}] :
             Do(action, MaxRepeats, draws)

RunSpec == Init /\ [][NextRun]_vars

----------------------------------------------------------------------------
(* The functions of the engine that read no Save, called on their own *)

MaxResults == 3

RequirementResults == {LOCKED, DEFAULT, FAILURE, SUCCESS}

ResultLists == UNION {[1..n -> RequirementResults] : n \in 0..MaxResults}

(* event.check(save) on requirements whose check() returns `results` *)
CheckResults(results) ==
    /\ last' = [op |-> "check_results", arg |-> results, pre |-> save,
                ret |-> BaseEvent_check_results(results, DEFAULT)]
    /\ UNCHANGED <<qualities, save, possessed>>

----------------------------------------------------------------------------
(* Quality.challenge_cap.  Its arithmetic is in Python floats (IEEE 754
   doubles): a positive double is its DoubleBits significant bits, first bit
   1 and most significant first, and the exponent `lsb` of its last bit. *)

DoubleBits == 53
LuckCategory == 2000

Pow2(n) == IF n <= 0 THEN 1 ELSE 2 ^ n

(* the natural number of a bit sequence, from its first bit *)
RECURSIVE NatOfFrom(_, _, _)
NatOfFrom(bits, i, acc) ==
    IF i > Len(bits) THEN acc
    ELSE NatOfFrom(bits, i + 1, 2 * acc + bits[i])

NatOf(bits) == NatOfFrom(bits, 1, 0)

AnyBit(bits) == \E i \in DOMAIN bits : bits[i] = 1

(* bits + 1, one bit longer when the carry runs out of the top *)
RECURSIVE BitsInc(_)
BitsInc(bits) ==
    IF bits = <<>> THEN <<1>>
    ELSE IF bits[Len(bits)] = 0
         THEN [bits EXCEPT ![Len(bits)] = 1]
         ELSE Append(BitsInc(SubSeq(bits, 1, Len(bits) - 1)), 0)

(* round to nearest, ties to even: `bits` are the DoubleBits kept, `round`
   the first bit dropped, `sticky` whether anything nonzero follows it *)
DoubleRound(bits, lsb, round, sticky) ==
    IF round = 1 /\ (sticky \/ bits[Len(bits)] = 1)
    THEN LET up == BitsInc(bits)
         IN  IF Len(up) > DoubleBits
             THEN [bits |-> SubSeq(up, 1, DoubleBits), lsb |-> lsb + 1]
             ELSE [bits |-> up, lsb |-> lsb]
    ELSE [bits |-> bits, lsb |-> lsb]

(* 100.0 / s by long division: r is the remainder, p the exponent of the
   quotient bit being produced, acc the bits produced from the first 1 on *)
RECURSIVE DoubleDiv100(_, _, _, _)
DoubleDiv100(s, r, p, acc) ==
    LET r1 == 2 * r + (IF p >= 0 THEN (100 \div Pow2(p)) % 2 ELSE 0)
        b  == IF r1 >= s THEN 1 ELSE 0
        r2 == r1 - b * s
    IN  IF acc = <<>> /\ b = 0 THEN DoubleDiv100(s, r2, p - 1, acc)
        ELSE IF Len(acc) = DoubleBits
             THEN DoubleRound(acc, p + 1, b, r2 # 0)
             ELSE DoubleDiv100(s, r2, p - 1, Append(acc, b))

(* bits * d for an integer d > 0, exactly: from bit i down to the first
   with a carry, then the bits of the carry; acc is the product so far (the
   test on acc and t has every step evaluate them before the next one) *)
RECURSIVE BitsTimes(_, _, _, _, _)
BitsTimes(bits, i, d, carry, acc) ==
    IF i = 0 /\ carry = 0 THEN acc
    ELSE LET t == (IF i = 0 THEN 0 ELSE bits[i] * d) + carry
             j == IF i = 0 THEN 0 ELSE i - 1
         IN  IF Len(acc) >= 0 /\ t % 2 = 0
             THEN BitsTimes(bits, j, d, t \div 2, <<0>> \o acc)
             ELSE BitsTimes(bits, j, d, t \div 2, <<1>> \o acc)

(* d * f for an integer d > 0 and a double f, rounded to a double *)
DoubleTimes(d, f) ==
    LET prod  == BitsTimes(f.bits, DoubleBits, d, 0, <<>>)
        extra == Len(prod) - DoubleBits
    IN  IF extra = 0 THEN [bits |-> prod, lsb |-> f.lsb]
        ELSE DoubleRound(SubSeq(prod, 1, DoubleBits), f.lsb + extra,
                         prod[DoubleBits + 1],
                         AnyBit(SubSeq(prod, DoubleBits + 2, Len(prod))))

(* the integer part of a double below 2^DoubleBits, and whether a fraction
   is left *)
DoubleFloor(f) == NatOf(SubSeq(f.bits, 1, DoubleBits + f.lsb))
DoubleFraction(f) ==
    AnyBit(SubSeq(f.bits, Max(1, DoubleBits + f.lsb + 1), DoubleBits))

(* int(math.ceil(d * x)) for an integer d and a double x > 0 *)
CeilTimes(d, x) ==
    IF d = 0 THEN 0
    ELSE IF d > 0
         THEN LET f == DoubleTimes(d, x)
              IN  DoubleFloor(f) + (IF DoubleFraction(f) THEN 1 ELSE 0)
         ELSE -DoubleFloor(DoubleTimes(-d, x))

(* Quality.is_luck *)
Quality_is_luck(q) == q.category = LuckCategory

(* Quality.challenge_cap; difficulty_factor is 0 without a scaler, else the
   double 100.0 / scaler *)
Quality_challenge_cap(q, difficulty) ==
    IF ~(difficulty # 0 \/ q.difficultyscaler # 0) THEN difficulty
    ELSE IF Quality_is_luck(q) THEN 50 - difficulty * q.difficultyscaler
    ELSE IF q.difficultyscaler = 0 THEN 0
    ELSE CeilTimes(difficulty, DoubleDiv100(q.difficultyscaler, 0, 6, <<>>))

(* the qualities and difficulties of the challenges *)
ChallengeQualities ==
    [category : {0, LuckCategory}, difficultyscaler : {0, 1, 3, 7, 60}]

Difficulties == 0..15

(* quality.challenge_cap(difficulty) *)
ChallengeCap(q, difficulty) ==
    /\ last' = [op |-> "challenge_cap",
                arg |-> [quality |-> q, difficulty |-> difficulty],
                pre |-> save,
                ret |-> Quality_challenge_cap(q, difficulty)]
    /\ UNCHANGED <<qualities, save, possessed>>

----------------------------------------------------------------------------
(* Requirement._tokenize.  Here the operators of a Requirement are the dict
   self.operator (name -> value) and the value of an *Advanced operator is
   its text. *)

(* Requirement._Op *)
Op_EQUAL        == "EQUAL"
Op_MIN          == "MIN"
Op_MAX          == "MAX"
Op_RANGE        == "RANGE"
Op_LUCK         == "LUCK"
Op_CHALLENGE    == "CHALLENGE"
Op_CHALLENGEADV == "CHALLENGEADV"
Op_INVALID      == "INVALID"

(* op.startswith('Min'), op.startswith('Max'), op.startswith('Difficulty'),
   op.endswith('Advanced'), and 'Max{}'.format(op[3:]) *)
StartsWithMin(op)        == op \in {"MinLevel", "MinAdvanced"}
StartsWithMax(op)        == op \in {"MaxLevel", "MaxAdvanced"}
StartsWithDifficulty(op) == op \in {"DifficultyLevel", "DifficultyAdvanced"}
EndsWithAdvanced(op)     ==
    op \in {"DifficultyAdvanced", "MinAdvanced", "MaxAdvanced"}
MaxOpOf(op) == IF op = "MinLevel" THEN "MaxLevel" ELSE "MaxAdvanced"

(* Quality.difficulty_factor: 0, or the double 100.0 / scaler *)
Quality_difficulty_factor(q) ==
    IF q.difficultyscaler = 0 THEN 0
    ELSE DoubleDiv100(q.difficultyscaler, 0, 6, <<>>)

(* the tuple appended by tokenize(optype, **kwargs) *)
Token(optype, value, op, kwargs) ==
    [optype |-> optype, value |-> value, op |-> op,
     isdifficulty |-> StartsWithDifficulty(op),
     isadvanced |-> EndsWithAdvanced(op),
     kwargs |-> kwargs]

(* ops.pop(key) leaving the dict as it is *)
Dict_pop_keeping(ops, key) == ops

(* ops.pop(key) *)
Dict_pop(ops, key) == [k \in DOMAIN ops \ {key} |-> ops[k]]

(* the loop of _tokenize over _OPS; `ops` is the copy it pops from *)
RECURSIVE Requirement_tokenize_loop(_, _, _, _)
Requirement_tokenize_loop(names, ops, q, tokens) ==
    IF names = <<>> THEN tokens
    ELSE LET op   == Head(names)
             rest == Tail(names)
         IN  IF op \notin DOMAIN ops
             THEN Requirement_tokenize_loop(rest, ops, q, tokens)
             ELSE LET value == ops[op]
                      maxop == MaxOpOf(op)
                  IN  CASE StartsWithMin(op) ->
                             IF maxop \in DOMAIN ops /\ ops[maxop] = value
                             THEN Requirement_tokenize_loop(rest,
                                      Dict_pop(ops, maxop), q,
                                      Append(tokens,
                                             Token(Op_EQUAL, value, op, <<>>)))
                             ELSE IF maxop \in DOMAIN ops
                             THEN Requirement_tokenize_loop(rest,
                                      Dict_pop(ops, maxop), q,
                                      Append(tokens,
                                             Token(Op_RANGE, value, op,
                                                   [v1 |-> value,
                                                    v2 |-> ops[maxop]])))
                             ELSE Requirement_tokenize_loop(rest, ops, q,
                                      Append(tokens,
                                             Token(Op_MIN, value, op, <<>>)))
                        [] StartsWithMax(op) ->
                             Requirement_tokenize_loop(rest, ops, q,
                                 Append(tokens, Token(Op_MAX, value, op, <<>>)))
                        [] op = "DifficultyLevel" ->
                             Requirement_tokenize_loop(rest, ops, q,
                                 Append(tokens,
                                        Token(IF Quality_is_luck(q)
                                              THEN Op_LUCK ELSE Op_CHALLENGE,
                                              Quality_challenge_cap(q, value),
                                              op, <<>>)))
                        [] op = "DifficultyAdvanced" ->
                             Requirement_tokenize_loop(rest, ops, q,
                                 Append(tokens,
                                        Token(Op_CHALLENGEADV, value, op,
                                              [scaler |-> q.difficultyscaler,
                                               factor |->
                                                 Quality_difficulty_factor(q)])))
                        [] OTHER ->
                             Requirement_tokenize_loop(rest, ops, q,
                                 Append(tokens,
                                        Token(Op_INVALID, value, op,
                                              [op |-> op])))

(* Requirement._tokenize() *)
Requirement_tokenize(operator, q) ==
    Requirement_tokenize_loop(Requirement_OPS, operator, q, <<>>)

(* the operator dicts tokenized: any set of operators; two values for a
   MinLevel, MaxLevel, MinAdvanced or MaxAdvanced *)
LevelDicts ==
    UNION {[S -> {0, 1}] : S \in SUBSET {"MinLevel", "MaxLevel"}}

DifficultyDicts == {<<>>, "DifficultyLevel" :> 15}

AdvancedDicts ==
    UNION {{f \in [S -> {"[q:1]", "[q:2]"}] :
               "DifficultyAdvanced" \in S => f["DifficultyAdvanced"] = "[q:1]"} :
           S \in SUBSET {"MinAdvanced", "MaxAdvanced", "DifficultyAdvanced"}}

TokenOperators ==
    {l @@ d @@ a : l \in LevelDicts, d \in DifficultyDicts,
                   a \in AdvancedDicts}

TokenQualities ==
    {q \in ChallengeQualities : q.difficultyscaler \in {0, 3}}

(* requirement._tokenize(), the Requirement being on quality q *)
Tokenize(operator, q) ==
    /\ last' = [op |-> "tokenize",
                arg |-> [operator |-> operator, quality |-> q],
                pre |-> save,
                ret |-> Requirement_tokenize(operator, q)]
    /\ UNCHANGED <<qualities, save, possessed>>

----------------------------------------------------------------------------
(* A Requirement built from its raw data: the operator fields of the JSON
   object, in the order of the data, as items (op, value) *)

(* QualityOperator.__init__: self.operator keeps the names that are in _OPS *)
QualityOperator_operator(data, OPS) ==
    LET known(item) == \E i \in DOMAIN OPS : OPS[i] = item.op
    IN  SelectSeq(data, known)

(* self.operator as the dict the tokenizer copies *)
DictOf(items) ==
    [name \in {items[i].op : i \in DOMAIN items} |->
        items[CHOOSE i \in DOMAIN items : items[i].op = name].value]

(* the names the data can carry: three of the six operators, and two names
   that are not operators of a Requirement *)
UnknownNames == {"Level", "MinimumLevel"}

RawItems ==
    [op : {"MinLevel", "MaxLevel"}, value : {0, 1}]
    \cup [op : {"DifficultyLevel"}, value : {15}]
    \cup [op : UnknownNames, value : {1, 5}]

(* raw data with up to three operator fields, each name once *)
RawData ==
    {<<>>} \cup {<<a>> : a \in RawItems}
    \cup {d \in {<<a, b>> : a \in RawItems, b \in RawItems} :
             d[1].op # d[2].op}
    \cup {d \in {<<a, b, c>> : a \in RawItems, b \in RawItems,
                                c \in RawItems} :
             d[1].op # d[2].op /\ d[1].op # d[3].op /\ d[2].op # d[3].op}

(* Requirement(data) on quality q: what its _tokenize() and its check(save)
   return *)
Build(data, q) ==
    LET operator == QualityOperator_operator(data, Requirement_OPS)
    IN  /\ last' = [op |-> "build",
                    arg |-> [data |-> data, quality |-> q],
                    pre |-> save,
                    ret |-> [operator |-> operator,
                             tokens |-> Requirement_tokenize(DictOf(operator),
                                                             q),
                             check |-> Requirement_check(
                                          [quality |-> 1,
                                           operator |-> operator], save)]]
        /\ UNCHANGED <<qualities, save, possessed>>

----------------------------------------------------------------------------
(* Entity._parse_adv.  A text is the sequence of its characters.  A character
   up to U+00FF is the string holding it; a character above, which a module
   cannot hold, is the string of its code point, "U+" and four to six
   hexadecimal digits: "U+2074" is SUPERSCRIPT FOUR, "U+0663" ARABIC-INDIC
   DIGIT THREE. *)

HexDigits == <<"0", "1", "2", "3", "4", "5", "6", "7", "8", "9",
               "A", "B", "C", "D", "E", "F">>

RECURSIVE Hex(_)
Hex(n) ==
    IF n < 16 THEN HexDigits[n + 1]
    ELSE Hex(n \div 16) \o HexDigits[(n % 16) + 1]

(* the character of a code point above U+00FF *)
CharOf(cp) == "U+" \o (IF cp < 4096 THEN "0" ELSE "") \o Hex(cp)

LowerCase == {"a", "b", "c", "d", "e", "f", "g", "h", "i", "j", "k", "l", "m",
              "n", "o", "p", "q", "r", "s", "t", "u", "v", "w", "x", "y", "z"}

(* the decimal digits, each at the position of its value plus one *)
DigitChars == <<"0", "1", "2", "3", "4", "5", "6", "7", "8", "9">>

(* the decimal digits beyond ASCII (Unicode category Nd): 65 runs of ten
   characters with the values 0 to 9, each given by the code point of its
   zero *)
DecimalZeros ==
    {1632, 1776, 1984, 2406, 2534, 2662, 2790, 2918, 3046, 3174, 3302, 3430,
     3558, 3664, 3792, 3872, 4160, 4240, 6112, 6160, 6470, 6608, 6784, 6800,
     6992, 7088, 7232, 7248, 42528, 43216, 43264, 43472, 43504, 43600,
     44016, 65296, 66720, 68912, 69734, 69872, 69942, 70096, 70384, 70736,
     70864, 71248, 71360, 71472, 71904, 72016, 72784, 73040, 73120, 92768,
     92864, 93008, 120782, 120792, 120802, 120812, 120822, 123200, 123632,
     125264, 130032}

DecimalDigits ==
    {[char |-> CharOf(z + d), value |-> d] : z \in DecimalZeros, d \in 0..9}

DecimalChars == {r.char : r \in DecimalDigits}

(* the characters that are digits to str.isdigit and no decimal digits to
   int() (Numeric_Type=Digit): the superscripts, the subscripts, the circled
   and parenthesized digits, the Ethiopic digits and others *)
OtherDigits ==
    {"¹", "²", "³"}
    \cup {CharOf(cp) : cp \in
           UNION {4969..4977, {6618}, {8304}, 8308..8313, 8320..8329,
                  9312..9320, 9332..9340, 9352..9360, {9450}, 9461..9469,
                  {9471}, 10102..10110, 10112..10120, 10122..10130,
                  68160..68163, 69216..69224, 69714..69722, 127232..127242}}

IsLower(c)    == c \in LowerCase
IsDecimal(c)  == c \in Range(DigitChars) \/ c \in DecimalChars
IsDigit(c)    == IsDecimal(c) \/ c \in OtherDigits
NotBracket(c) == c \notin {"[", "]"}

(* [a-z]* from position i, greedy: the first position after the run *)
LowerRunEnd(text, i) ==
    CHOOSE j \in i..(Len(text) + 1) :
        /\ j = Len(text) + 1 \/ ~IsLower(text[j])
        /\ \A k \in i..(j - 1) : IsLower(text[k])

(* [^][]* from position i, greedy: the first position after the run *)
PlainRunEnd(text, i) ==
    CHOOSE j \in i..(Len(text) + 1) :
        /\ j = Len(text) + 1 \/ ~NotBracket(text[j])
        /\ \A k \in i..(j - 1) : NotBracket(text[k])

(* (?:[^][]+|\[[^][]+])* from position p, greedy: the end of the value *)
RECURSIVE Regex_value_end(_, _)

(* the value taken as one run of characters that are no brackets *)
Regex_value_end_flat(text, p) == PlainRunEnd(text, p)

Regex_value_end(text, p) ==
    IF p > Len(text) THEN p
    ELSE IF NotBracket(text[p])
    THEN Regex_value_end(text, PlainRunEnd(text, p))
    ELSE IF text[p] = "["
    THEN LET e == PlainRunEnd(text, p + 1)
         IN  IF e > p + 1 /\ e <= Len(text) /\ text[e] = "]"
             THEN Regex_value_end(text, e + 1)
             ELSE p
    ELSE p

(* _re_adv matched at position i: \[(?P<key>[a-z]+):(?P<value>...)] *)
Regex_adv_match(text, i) ==
    LET k  == LowerRunEnd(text, i + 1)
        v  == Regex_value_end(text, k + 1)
        ok == /\ text[i] = "["
              /\ k > i + 1 /\ k <= Len(text) /\ text[k] = ":"
              /\ v > k + 1 /\ v <= Len(text) /\ text[v] = "]"
    IN  IF ok
        THEN [ok    |-> TRUE,
              group |-> SubSeq(text, i, v),
              key   |-> SubSeq(text, i + 1, k - 1),
              value |-> SubSeq(text, k + 1, v - 1),
              end   |-> v + 1]
        ELSE [ok |-> FALSE]

(* re.finditer(_re_adv, text): the matches from position i, left to right,
   none overlapping another *)
RECURSIVE Regex_finditer(_, _)
Regex_finditer(text, i) ==
    IF i > Len(text) THEN <<>>
    ELSE LET m == Regex_adv_match(text, i)
         IN  IF m.ok THEN <<m>> \o Regex_finditer(text, m.end)
             ELSE Regex_finditer(text, i + 1)

(* str.isdigit: not empty, and every character a digit *)
Str_isdigit(s) == s # <<>> /\ \A i \in DOMAIN s : IsDigit(s[i])

(* the most digits int() converts (sys.int_max_str_digits of the
   interpreter, every digit counted, leading zeros too) *)
Int_max_str_digits == 4300

(* int(s) on a string of digits raises ValueError unless every character is
   a decimal digit and there are no more than Int_max_str_digits of them *)
Int_raises(s) ==
    \/ Len(s) > Int_max_str_digits
    \/ \E i \in DOMAIN s : ~IsDecimal(s[i])

(* the value int() gives a decimal digit *)
DigitValue(c) ==
    IF c \in Range(DigitChars)
    THEN (CHOOSE i \in DOMAIN DigitChars : DigitChars[i] = c) - 1
    ELSE (CHOOSE r \in DecimalDigits : r.char = c).value

(* int(s) == k for a string of decimal digits and a key of the registry:
   the digits of s are those of k, any number of zeros before them.  The
   comparison is made digit by digit, s having up to Int_max_str_digits
   digits and k, a machine integer, ten at most and no more than s has *)
Int_is(s, k) ==
    LET pow10 == <<1, 10, 100, 1000, 10000, 100000, 1000000, 10000000,
                   100000000, 1000000000>>
        digit(j) == IF j < Len(pow10) THEN (k \div pow10[j + 1]) % 10 ELSE 0
    IN  /\ k >= 0
        /\ Len(s) < Len(pow10) => k < pow10[Len(s) + 1]
        /\ \A i \in DOMAIN s : DigitValue(s[i]) = digit(Len(s) - i)

(* the exception that leaves _parse_adv; no text is this sequence, a text
   being made of single characters *)
ValueError == <<"ValueError">>

(* str.find: the first position where sub occurs in s, 0 if none *)
Str_find(s, sub) ==
    LET at(i) == SubSeq(s, i, i + Len(sub) - 1) = sub
        where == {i \in 1..(Len(s) - Len(sub) + 1) : at(i)}
    IN  IF where = {} THEN 0
        ELSE CHOOSE i \in where : \A j \in where : i <= j

(* s.replace(old, new, 1) *)
Str_replace1(s, old, new) ==
    LET i == Str_find(s, old)
    IN  IF i = 0 THEN s
        ELSE SubSeq(s, 1, i - 1) \o new \o SubSeq(s, i + Len(old), Len(s))

(* the default templates: qfmt "[{name}]", qbfmt "[Base {name}]",
   dfmt "[1 to {}]", noqfmt "[Quality({})]", qnamefmt "{{{}}}" *)
Format_qfmt(name)    == <<"[">> \o name \o <<"]">>
Format_qbfmt(name)   == <<"[", "B", "a", "s", "e", " ">> \o name \o <<"]">>
Format_dfmt(x)       == <<"[", "1", " ", "t", "o", " ">> \o x \o <<"]">>
Format_noqfmt(x)     ==
    <<"[", "Q", "u", "a", "l", "i", "t", "y", "(">> \o x \o <<")", "]">>
Format_qnamefmt(x)   == <<"{">> \o x \o <<"}">>

(* _parse_adv(text) with the default templates; `names` is the registry
   (quality id -> name); no substitution (None) is the empty text.  int() is
   called only when there is a registry with a Quality in it; the ValueError
   it raises, in this call or in the nested one of a dice marker, ends the
   loop and leaves the call *)
RECURSIVE Entity_parse_adv(_, _)
RECURSIVE Entity_parse_adv_loop(_, _, _)
Entity_parse_adv_loop(matches, result, names) ==
    IF matches = <<>> THEN result
    ELSE LET m     == Head(matches)
             key   == m.key
             value == m.value
             inner == Entity_parse_adv(value, names)
             subst ==
                 IF key \in {<<"q">>, <<"q", "b">>}
                 THEN IF Str_isdigit(value)
                      THEN IF DOMAIN names # {} /\ Int_raises(value)
                           THEN ValueError
                           ELSE IF \E k \in DOMAIN names : Int_is(value, k)
                           THEN LET name == names[CHOOSE k \in DOMAIN names :
                                                     Int_is(value, k)]
                                IN  IF key = <<"q", "b">>
                                    THEN Format_qbfmt(name)
                                    ELSE Format_qfmt(name)
                           ELSE Format_noqfmt(value)
                      ELSE Format_qnamefmt(value)
                 ELSE IF key = <<"d">>
                 THEN IF inner = ValueError THEN ValueError
                      ELSE Format_dfmt(inner)
                 ELSE <<>>
         IN  IF subst = ValueError THEN ValueError
             ELSE Entity_parse_adv_loop(Tail(matches),
                      IF subst # <<>>
                      THEN Str_replace1(result, m.group, subst)
                      ELSE result,
                      names)

Entity_parse_adv(text, names) ==
    Entity_parse_adv_loop(Regex_finditer(text, 1), text, names)

(* the texts parsed: up to MaxPieces pieces, each a marker or plain text *)
MaxPieces == 3

Text_Iron == <<"I", "r", "o", "n">>
Text_q42  == <<"[", "q", ":", "4", "2", "]">>
Text_q7   == <<"[", "q", ":", "7", "]">>
Text_qb42 == <<"[", "q", "b", ":", "4", "2", "]">>
Text_qx   == <<"[", "q", ":", "x", "]">>
Text_d5   == <<"[", "d", ":", "5", "]">>
Text_dq42 == <<"[", "d", ":">> \o Text_q42 \o <<"]">>
Text_qq42 == <<"[", "q", ":">> \o Text_q42 \o <<"]">>
Text_kq42 == <<"[", "k", ":">> \o Text_q42 \o <<"]">>
Text_plus == <<" ", "+", " ">>
Text_qs2  == <<"[", "q", ":", "²", "]">>
Text_q4s2 == <<"[", "q", ":", "4", "²", "]">>
Text_dqs2 == <<"[", "d", ":">> \o Text_qs2 \o <<"]">>
Text_qs4  == <<"[", "q", ":", CharOf(8308), "]">>
Text_qa42 == <<"[", "q", ":", CharOf(1636), CharOf(1634), "]">>
Text_q4f2 == <<"[", "q", ":", "4", CharOf(65298), "]">>
Text_qlong ==
    <<"[", "q", ":">> \o [i \in 1..(Int_max_str_digits + 1) |-> "1"]
    \o <<"]">>
Text_qz42 ==
    <<"[", "q", ":">> \o [i \in 1..(Int_max_str_digits - 2) |-> "0"]
    \o <<"4", "2", "]">>

(* markers nested, if at all, in a dice marker; and markers nested in a
   marker of another key *)
PlainPieces == {Text_q42, Text_q7, Text_qb42, Text_qx, Text_d5, Text_dq42,
                Text_plus}
NestingPieces == {Text_qq42, Text_kq42}

Pieces == PlainPieces \cup NestingPieces

(* markers whose id is at the edge of what int() reads, each on its own and
   with another piece before or after it: ids with a superscript two or
   four and an id of Int_max_str_digits + 1 digits, which int() refuses, and
   42 in Arabic-Indic digits, as "4" and a fullwidth two, and after zeros
   that make it Int_max_str_digits digits long, which int() reads *)
RaisingPieces == {Text_qs2, Text_q4s2, Text_dqs2, Text_qs4, Text_qlong}
DecimalPieces == {Text_qa42, Text_q4f2, Text_qz42}
DigitPieces == RaisingPieces \cup DecimalPieces

DigitLists ==
    {<<d>> : d \in DigitPieces}
    \cup {<<p, d>> : p \in Pieces \cup DigitPieces, d \in DigitPieces}
    \cup {<<d, p>> : p \in Pieces \cup DigitPieces, d \in DigitPieces}

PieceLists == UNION {[1..n -> Pieces] : n \in 1..MaxPieces} \cup DigitLists

RECURSIVE Concat(_)
Concat(pieces) ==
    IF pieces = <<>> THEN <<>> ELSE Head(pieces) \o Concat(Tail(pieces))

NameRegistries == {<<>>, 42 :> Text_Iron}

(* entity._parse_adv(text), the text being the pieces put together *)
ParseAdv(pieces, names) ==
    /\ last' = [op |-> "parse_adv",
                arg |-> [pieces |-> pieces, text |-> Concat(pieces),
                         names |-> names],
                pre |-> save,
                ret |-> Entity_parse_adv(Concat(pieces), names)]
    /\ UNCHANGED <<qualities, save, possessed>>

----------------------------------------------------------------------------
(* One call of a function on its own *)

NextPure ==
    \/ \E results \in ResultLists : Loaded /\ CheckResults(results)
    \/ \E q \in ChallengeQualities, difficulty \in Difficulties :
          Loaded /\ ChallengeCap(q, difficulty)
    \/ \E operator \in TokenOperators, q \in TokenQualities :
          Loaded /\ Tokenize(operator, q)
    \/ \E data \in RawData, q \in TokenQualities : Loaded /\ Build(data, q)
    \/ \E pieces \in PieceLists, names \in NameRegistries :
          Loaded /\ ParseAdv(pieces, names)

(* the ruleset loaded, no Save entries yet *)
PureInit == Init /\ save = <<>>

PureSpec == PureInit /\ [][NextPure]_vars

----------------------------------------------------------------------------
(* Reading the state *)

Present(sv, qid) == Entities_get(sv, qid) # 0

(* the SaveQuality a call works on: the entry of the Save, or a new one *)
EntryOf(sv, qid) ==
    IF Present(sv, qid) THEN sv[Entities_get(sv, qid)] ELSE SaveQuality_new(qid, 0, 0)

LevelOf(sv, qid) == EntryOf(sv, qid).Level
XPOf(sv, qid)    == EntryOf(sv, qid).XP

OpNames(req) == {req.operator[i].op : i \in DOMAIN req.operator}

Called(op) == last.op = op

----------------------------------------------------------------------------
(* Action.do *)

RECURSIVE EffectsOf(_, _)
EffectsOf(action, outcomes) ==
    IF outcomes = <<>> THEN 0
    ELSE Len(action.outdict[Head(outcomes)].effects)
         + EffectsOf(action, Tail(outcomes))

(* C1: do(repeats) runs its iterations until the first one whose check is
   LOCKED and stops there: one label per completed iteration, at most
   `repeats` of them, fewer only if check on the Save as it stands is LOCKED;
   the effects applied are those of the completed iterations only; when
   check is LOCKED at the first iteration the result is empty and the Save
   unchanged. *)
C1_DoStopsAtLocked ==
    Called("do") =>
        LET a   == last.arg.action
            r   == last.ret
            n   == Len(r.results)
            rep == last.arg.repeats
            lockedfirst == BaseEvent_check(a.requirements, last.pre) = LOCKED
        IN  /\ n <= rep
            /\ n < rep => BaseEvent_check(a.requirements, save) = LOCKED
            /\ Len(r.outcomes) = n
            /\ r.applied = EffectsOf(a, r.outcomes)
            /\ lockedfirst => n = 0 /\ save = last.pre /\ r.applied = 0
            /\ (rep >= 1 /\ ~lockedfirst) => n >= 1

(* a do() that completed an iteration and was locked at a later one *)
C1_Witness ==
    /\ Called("do")
    /\ Len(last.ret.results) >= 1
    /\ Len(last.ret.results) < last.arg.repeats
    /\ last.ret.applied >= 1
    /\ save # last.pre

----------------------------------------------------------------------------
(* Requirement.check *)

MinMaxFails(req, v) ==
    \E i \in DOMAIN req.operator :
        \/ req.operator[i].op = "MinLevel" /\ v < req.operator[i].value
        \/ req.operator[i].op = "MaxLevel" /\ v > req.operator[i].value

(* C2: a Requirement carrying only MinLevel and/or MaxLevel is LOCKED iff the
   SaveQuality's value is below MinLevel or above MaxLevel, DEFAULT
   otherwise; a value equal to the bound passes. *)
C2_MinMaxLocked ==
    (/\ Called("check")
     /\ OpNames(last.arg) # {}
     /\ OpNames(last.arg) \subseteq {"MinLevel", "MaxLevel"})
    => last.ret = IF MinMaxFails(last.arg, LevelOf(last.pre, last.arg.quality))
                  THEN LOCKED ELSE DEFAULT

(* a lone MinLevel = m checked on an entry whose value is m: it passes *)
C2_Witness ==
    /\ Called("check")
    /\ OpNames(last.arg) = {"MinLevel"}
    /\ Present(last.pre, last.arg.quality)
    /\ LevelOf(last.pre, last.arg.quality) = last.arg.operator[1].value
    /\ LevelOf(last.pre, last.arg.quality) >= 1
    /\ last.ret = DEFAULT

Unimplemented ==
    {"DifficultyLevel", "DifficultyAdvanced", "MinAdvanced", "MaxAdvanced"}

HasUnimplemented(req) == OpNames(req) \cap Unimplemented # {}

(* C3 as stated: a Requirement carrying a challenge/luck/advanced operator is
   LOCKED only when one of its MinLevel/MaxLevel comparisons fails, DEFAULT
   otherwise. *)
C3_Original ==
    (Called("check") /\ HasUnimplemented(last.arg))
    => last.ret = IF MinMaxFails(last.arg, LevelOf(last.pre, last.arg.quality))
                  THEN LOCKED ELSE DEFAULT

(* what Requirement.check does instead: its else branch returns LOCKED for
   every operator that is neither MinLevel nor MaxLevel, so a Requirement
   carrying any of DifficultyLevel, DifficultyAdvanced, MinAdvanced,
   MaxAdvanced is LOCKED whatever the value of the SaveQuality (by a failed
   MinLevel/MaxLevel comparison met first, or by that branch), and do() on an
   Action with such a requirement returns an empty result and leaves the
   Save unchanged. *)
C3_UnimplementedLocks ==
    /\ (Called("check") /\ HasUnimplemented(last.arg)) => last.ret = LOCKED
    /\ (/\ Called("do")
        /\ \E i \in DOMAIN last.arg.action.requirements :
              HasUnimplemented(last.arg.action.requirements[i]))
       => /\ last.ret.results = <<>>
          /\ last.ret.applied = 0
          /\ save = last.pre

(* a Requirement with DifficultyLevel whose MinLevel comparison passes,
   and is LOCKED all the same *)
C3_Witness ==
    /\ Called("check")
    /\ OpNames(last.arg) = {"DifficultyLevel", "MinLevel"}
    /\ ~MinMaxFails(last.arg, LevelOf(last.pre, last.arg.quality))
    /\ last.ret = LOCKED

----------------------------------------------------------------------------
(* Rare outcomes *)

(* C4: an iteration whose base outcome has a Rare sibling draws exactly one
   integer and applies the Rare outcome iff the draw is below the sibling's
   chance; an iteration without a Rare sibling draws nothing and applies the
   base outcome; a locked iteration draws nothing. *)
C4_RareDraw ==
    Called("do") =>
        LET a == last.arg.action
            r == last.ret
        IN  IF HasRare(a)
            THEN /\ r.drawn = Len(r.outcomes)
                 /\ \A i \in DOMAIN r.outcomes :
                       /\ r.outcomes[i] = "RareDefaultEvent"
                            <=> last.arg.draws[i]
                                  < a.outdict["RareDefaultEvent"].chance
                       /\ r.outcomes[i] # "RareDefaultEvent"
                            => r.outcomes[i] = "DefaultEvent"
                       /\ r.results[i] = IF r.outcomes[i] = "RareDefaultEvent"
                                         THEN "RAREDEFAULT" ELSE "DEFAULT"
            ELSE /\ r.drawn = 0
                 /\ \A i \in DOMAIN r.outcomes :
                       /\ r.outcomes[i] = "DefaultEvent"
                       /\ r.results[i] = "DEFAULT"

(* chance 50: a draw of 49 took the Rare outcome, a draw of 50 did not *)
C4_Witness ==
    /\ Called("do")
    /\ HasRare(last.arg.action)
    /\ last.arg.action.outdict["RareDefaultEvent"].chance = 50
    /\ Len(last.ret.outcomes) = 2
    /\ last.arg.draws = <<49, 50>>
    /\ last.ret.outcomes = <<"RareDefaultEvent", "DefaultEvent">>

----------------------------------------------------------------------------
(* SaveQuality writes *)

(* C5: from a Save whose values are within 0..cap, every state reached by
   value writes, set_to, increase_by, Effect.apply and Action.do has
   0 <= value, and value <= cap for every quality with a cap. *)
C5_ValueInRange ==
    \A i \in 1..Len(save) :
        /\ save[i].Level >= 0
        /\ qualities[save[i].id].cap # 0
              => save[i].Level <= qualities[save[i].id].cap

(* an increment that went above the cap and was clamped to it *)
C5_Witness ==
    /\ Called("increase_by")
    /\ ~qualities[last.arg.quality].usepyramidnumbers
    /\ qualities[last.arg.quality].cap # 0
    /\ LevelOf(last.pre, last.arg.quality) + last.arg.value
          > qualities[last.arg.quality].cap
    /\ LevelOf(save, last.arg.quality) = qualities[last.arg.quality].cap
    /\ last.pre # save

DropsBelowZero(effects) ==
    effects = <<Eff(1, "Level", -1), Eff(2, "Level", 1)>>

(* C6: a write whose computed result is negative is discarded: the value
   keeps its previous level (it is not set to 0), and the effects that
   follow in the same outcome are still applied. *)
C6_NegativeWriteDiscarded ==
    /\ (Called("value") /\ last.arg.value < 0) => save = last.pre
    /\ (/\ Called("increase_by")
        /\ ~qualities[last.arg.quality].usepyramidnumbers
        /\ LevelOf(last.pre, last.arg.quality) + last.arg.value < 0)
       => save = last.pre
    /\ (/\ Called("apply")
        /\ DOMAIN last.arg.operator = {"Level"}
        /\ ~qualities[last.arg.quality].usepyramidnumbers
        /\ LevelOf(last.pre, last.arg.quality) + last.arg.operator["Level"] < 0)
       => /\ LevelOf(save, last.arg.quality)
               = LevelOf(last.pre, last.arg.quality)
          /\ last.ret = <<"increase_by">>
    /\ (/\ Called("do")
        /\ last.arg.repeats = 1
        /\ last.arg.action.requirements = <<>>
        /\ ~HasRare(last.arg.action)
        /\ DropsBelowZero(last.arg.action.outdict["DefaultEvent"].effects)
        /\ ~qualities[1].usepyramidnumbers
        /\ LevelOf(last.pre, 1) = 0)
       => /\ LevelOf(save, 1) = 0
          /\ LevelOf(save, 2) = LevelOf(last.pre, 2) + 1
          /\ last.ret.applied = 2
          /\ last.ret.results = <<"DEFAULT">>

(* increase_by(-n) with n above a positive value: the value stayed *)
C6_Witness ==
    /\ Called("increase_by")
    /\ ~qualities[last.arg.quality].usepyramidnumbers
    /\ LevelOf(last.pre, last.arg.quality) >= 1
    /\ LevelOf(last.pre, last.arg.quality) + last.arg.value < 0
    /\ LevelOf(save, last.arg.quality) = LevelOf(last.pre, last.arg.quality)

----------------------------------------------------------------------------
(* Effect.apply *)

HasGuard(effect) ==
    {"OnlyIfAtLeast", "OnlyIfNoMoreThan"} \cap DOMAIN effect.operator # {}

GuardFails(effect, v) ==
    \/ /\ "OnlyIfAtLeast" \in DOMAIN effect.operator
       /\ v < effect.operator["OnlyIfAtLeast"]
    \/ /\ "OnlyIfNoMoreThan" \in DOMAIN effect.operator
       /\ v > effect.operator["OnlyIfNoMoreThan"]

Unguarded(effect) ==
    [effect EXCEPT !.operator =
        [op \in DOMAIN effect.operator
                  \ {"OnlyIfAtLeast", "OnlyIfNoMoreThan"} |-> effect.operator[op]]]

Mutating(call) == call \in {"set_to", "increase_by"}

(* C7: the guards of an Effect are evaluated on the value the SaveQuality has
   before any value operator: apply is a no-op exactly when value < a or
   value > b (nothing changes but the level-0 entry created for the effect's
   own quality); otherwise the value operators are applied as without the
   guards. *)
C7_GuardsFirst ==
    (Called("apply") /\ HasGuard(last.arg)) =>
        LET q == last.arg.quality
        IN  IF GuardFails(last.arg, LevelOf(last.pre, q))
            THEN /\ last.ret = <<>>
                 /\ save = IF Present(last.pre, q) THEN last.pre
                           ELSE Append(last.pre, SaveQuality_new(q, 0, 0))
            ELSE /\ save = Effect_apply(Unguarded(last.arg), last.pre,
                                        qualities).save
                 /\ "SetToExactly" \in DOMAIN last.arg.operator
                       => \E i \in DOMAIN last.ret : last.ret[i] = "set_to"
                 /\ "Level" \in DOMAIN last.arg.operator
                       => \E i \in DOMAIN last.ret : last.ret[i] = "increase_by"

(* a negative Level held back by OnlyIfNoMoreThan on the value as it was:
   had Level been applied first, the guard would have passed *)
C7_Witness ==
    /\ Called("apply")
    /\ DOMAIN last.arg.operator = {"Level", "OnlyIfNoMoreThan"}
    /\ Present(last.pre, last.arg.quality)
    /\ LevelOf(last.pre, last.arg.quality)
          > last.arg.operator["OnlyIfNoMoreThan"]
    /\ LevelOf(last.pre, last.arg.quality) + last.arg.operator["Level"]
          <= last.arg.operator["OnlyIfNoMoreThan"]
    /\ save = last.pre

(* C8 as stated: an apply whose guards pass performs exactly one
   value-mutating operation, whichever operators the Effect carries (read
   here for the Effects that carry Level or SetToExactly). *)
C8_Original ==
    (/\ Called("apply")
     /\ {"Level", "SetToExactly"} \cap DOMAIN last.arg.operator # {}
     /\ ~GuardFails(last.arg, LevelOf(last.pre, last.arg.quality)))
    => Len(SelectSeq(last.ret, Mutating)) = 1

(* C8 amended: an apply whose guards pass performs one value-mutating
   operation per value operator the Effect carries, SetToExactly before
   Level: exactly one when it carries one of the two, none when it carries
   neither, and two (set_to, then increase_by) when it carries both. *)
C8_OnePerValueOperator ==
    (/\ Called("apply")
     /\ ~GuardFails(last.arg, LevelOf(last.pre, last.arg.quality)))
    => SelectSeq(last.ret, Mutating)
          = (IF "SetToExactly" \in DOMAIN last.arg.operator
             THEN <<"set_to">> ELSE <<>>)
            \o (IF "Level" \in DOMAIN last.arg.operator
                THEN <<"increase_by">> ELSE <<>>)

(* an Effect carrying Level and SetToExactly: both were applied *)
C8_Witness ==
    /\ Called("apply")
    /\ DOMAIN last.arg.operator = {"Level", "SetToExactly"}
    /\ last.ret = <<"set_to", "increase_by">>
    /\ LevelOf(save, last.arg.quality)
          # LevelOf(last.pre, last.arg.quality)

OnlySetToExactly(effect) == DOMAIN effect.operator = {"SetToExactly"}

(* C9 as stated: SetToExactly = v on a quality with cap c > 0 leaves
   value = min(v, c), and a second application changes nothing. *)
C9_Original ==
    (/\ Called("apply")
     /\ OnlySetToExactly(last.arg)
     /\ qualities[last.arg.quality].cap > 0)
    => /\ LevelOf(save, last.arg.quality)
            = Min(last.arg.operator["SetToExactly"],
                  qualities[last.arg.quality].cap)
       /\ Effect_apply(last.arg, save, qualities).save = save

(* C9 amended: SetToExactly = v on a quality with cap c > 0 leaves
   value = min(v, c) when v >= 0 and leaves the value as it was when v < 0;
   in both cases xp is 0 and a second application changes nothing. *)
C9_SetToExactlyClamps ==
    (/\ Called("apply")
     /\ OnlySetToExactly(last.arg)
     /\ qualities[last.arg.quality].cap > 0)
    => LET q == last.arg.quality
           v == last.arg.operator["SetToExactly"]
       IN  /\ v >= 0 => LevelOf(save, q) = Min(v, qualities[q].cap)
           /\ v < 0  => LevelOf(save, q) = LevelOf(last.pre, q)
           /\ XPOf(save, q) = 0
           /\ Effect_apply(last.arg, save, qualities).save = save

(* SetToExactly above the cap: the value went up to the cap *)
C9_Witness ==
    /\ Called("apply")
    /\ OnlySetToExactly(last.arg)
    /\ qualities[last.arg.quality].cap > 0
    /\ last.arg.operator["SetToExactly"] > qualities[last.arg.quality].cap
    /\ LevelOf(last.pre, last.arg.quality) < qualities[last.arg.quality].cap
    /\ LevelOf(save, last.arg.quality) = qualities[last.arg.quality].cap

(* a write of value v on quality q is clamped at the cap or dropped *)
Clamped(q, v) == (q.cap # 0 /\ v > q.cap) \/ v < 0

(* C10: for a quality without pyramid numbers, increase_by(n) followed by
   increase_by(-n) returns the value to its original level, unless one of
   the two writes was clamped at the cap or stopped at 0. *)
C10_IncreaseRoundTrip ==
    (Called("increase_by") /\ ~qualities[last.arg.quality].usepyramidnumbers)
    => LET qid == last.arg.quality
           q   == qualities[qid]
           n   == last.arg.value
           v0  == LevelOf(last.pre, qid)
           v1  == LevelOf(save, qid)
       IN  (~Clamped(q, v0 + n) /\ ~Clamped(q, v1 - n))
           => SaveQuality_increase_by(EntryOf(save, qid), q, -n).Level = v0

(* an increment that changed the value and was not clamped *)
C10_Witness ==
    /\ Called("increase_by")
    /\ ~qualities[last.arg.quality].usepyramidnumbers
    /\ last.arg.value # 0
    /\ LevelOf(save, last.arg.quality)
          = LevelOf(last.pre, last.arg.quality) + last.arg.value
    /\ LevelOf(save, last.arg.quality) # LevelOf(last.pre, last.arg.quality)

----------------------------------------------------------------------------
(* Pyramid numbers *)

(* the limit L of the claim: min(V, configured limit or V) *)
LimitAt(q, v) ==
    IF q.pyramidnumberincreaselimit # 0
    THEN Min(v, q.pyramidnumberincreaselimit) ELSE v

AtCap(q, v) == q.cap # 0 /\ v >= q.cap

(* C11 as stated: on a pyramid quality at value V, xp 0, with L = min(V,
   configured limit or V), increase_by(L + 1) yields value V + 1 and xp 0,
   and increase_by(k) with 0 <= k <= L leaves the value at V with xp = k. *)
C11_Original ==
    (/\ Called("increase_by")
     /\ qualities[last.arg.quality].usepyramidnumbers
     /\ XPOf(last.pre, last.arg.quality) = 0)
    => LET qid == last.arg.quality
           V   == LevelOf(last.pre, qid)
           L   == LimitAt(qualities[qid], V)
           n   == last.arg.value
       IN  /\ n = L + 1 => LevelOf(save, qid) = V + 1 /\ XPOf(save, qid) = 0
           /\ (0 <= n /\ n <= L) => LevelOf(save, qid) = V /\ XPOf(save, qid) = n

(* C11 amended: the same, except that at the quality's cap increase_by(L + 1)
   leaves the value at V (the write is clamped) with xp 0. *)
C11_PyramidLevelUp ==
    (/\ Called("increase_by")
     /\ qualities[last.arg.quality].usepyramidnumbers
     /\ XPOf(last.pre, last.arg.quality) = 0)
    => LET qid == last.arg.quality
           V   == LevelOf(last.pre, qid)
           L   == LimitAt(qualities[qid], V)
           n   == last.arg.value
       IN  /\ n = L + 1 =>
                /\ LevelOf(save, qid) =
                      IF AtCap(qualities[qid], V) THEN V ELSE V + 1
                /\ XPOf(save, qid) = 0
           /\ (0 <= n /\ n <= L) => LevelOf(save, qid) = V /\ XPOf(save, qid) = n

(* a level-up from value 2 that took three points *)
C11_Witness ==
    /\ Called("increase_by")
    /\ qualities[last.arg.quality].usepyramidnumbers
    /\ XPOf(last.pre, last.arg.quality) = 0
    /\ LevelOf(last.pre, last.arg.quality) = 2
    /\ last.arg.value = 3
    /\ LevelOf(save, last.arg.quality) = 3
    /\ XPOf(save, last.arg.quality) = 0

----------------------------------------------------------------------------
(* Effects with an operator apply does not implement *)

ValueOperators == {"Level", "SetToExactly"}
AdvancedOperators == {"ChangeByAdvanced", "SetToExactlyAdvanced"}

(* an Effect whose value operator is ChangeByAdvanced or SetToExactlyAdvanced *)
AdvancedOnly(effect) ==
    /\ DOMAIN effect.operator \cap AdvancedOperators # {}
    /\ DOMAIN effect.operator \cap ValueOperators = {}

NotAdvancedOnly(effect) == ~AdvancedOnly(effect)

SameValues(sv1, sv2) ==
    \A qid \in QualityIds :
        /\ LevelOf(sv1, qid) = LevelOf(sv2, qid)
        /\ XPOf(sv1, qid) = XPOf(sv2, qid)

(* C12: applying an Effect whose value operator is ChangeByAdvanced or
   SetToExactlyAdvanced changes no value and no xp and makes no write, and the
   other Effects of the same Outcome are applied all the same: do() leaves
   the values that the Outcome without those Effects would leave. *)
C12_AdvancedIsNoOp ==
    /\ (Called("apply") /\ AdvancedOnly(last.arg))
       => /\ SameValues(save, last.pre)
          /\ \A i \in 1..Len(last.pre) : save[i] = last.pre[i]
          /\ \A i \in DOMAIN last.ret : ~Mutating(last.ret[i])
    /\ (/\ Called("do")
        /\ last.arg.repeats = 1
        /\ last.arg.action.requirements = <<>>
        /\ ~HasRare(last.arg.action))
       => LET es == last.arg.action.outdict["DefaultEvent"].effects
              others == SelectSeq(es, NotAdvancedOnly)
          IN  /\ last.ret.applied = Len(es)
              /\ SameValues(save,
                            BaseEvent_apply(others, last.pre, qualities).save)

(* an Outcome whose first Effect carries ChangeByAdvanced and whose second
   Effect raised the value *)
C12_Witness ==
    /\ Called("do")
    /\ last.arg.repeats = 1
    /\ last.arg.action.requirements = <<>>
    /\ ~HasRare(last.arg.action)
    /\ LET es == last.arg.action.outdict["DefaultEvent"].effects
       IN  /\ Len(es) = 2
           /\ DOMAIN es[1].operator = {"ChangeByAdvanced"}
           /\ DOMAIN es[2].operator = {"Level"}
           /\ LevelOf(save, es[2].quality)
                = LevelOf(last.pre, es[2].quality) + 1

----------------------------------------------------------------------------
(* BaseEvent._check *)

AnyIs(results, x) == \E i \in DOMAIN results : results[i] = x

(* C13: the check of an event combines the results of its requirements by
   severity: LOCKED if any is LOCKED; else FAILURE if any is FAILURE; else
   SUCCESS if any is SUCCESS; else DEFAULT, the empty list included. *)
C13_CheckAggregate ==
    Called("check_results") =>
        last.ret = IF AnyIs(last.arg, LOCKED) THEN LOCKED
                   ELSE IF AnyIs(last.arg, FAILURE) THEN FAILURE
                   ELSE IF AnyIs(last.arg, SUCCESS) THEN SUCCESS
                   ELSE DEFAULT

(* a FAILURE followed by a SUCCESS and a DEFAULT: the result is FAILURE *)
C13_Witness ==
    /\ Called("check_results")
    /\ last.arg = <<FAILURE, SUCCESS, DEFAULT>>
    /\ last.ret = FAILURE

----------------------------------------------------------------------------
(* Quality.challenge_cap *)

(* ceil(a / b) for b > 0, in exact arithmetic *)
CeilDiv(a, b) == -((-a) \div b)

(* C15: challenge_cap(difficulty) is 50 - difficulty * scaler for the Luck
   quality; otherwise ceil(difficulty * 100 / scaler) when the quality has a
   scaler > 0, and the difficulty itself when it has none. *)
C15_ChallengeCap ==
    Called("challenge_cap") =>
        LET q == last.arg.quality
            d == last.arg.difficulty
        IN  last.ret =
               IF q.category = LuckCategory THEN 50 - d * q.difficultyscaler
               ELSE IF q.difficultyscaler > 0
                    THEN CeilDiv(d * 100, q.difficultyscaler)
                    ELSE d

----------------------------------------------------------------------------
(* Requirement._tokenize *)

(* the tokens made for the operators of `names` *)
TokensFor(tokens, names) ==
    SelectSeq(tokens, LAMBDA t : t.op \in names)

(* what the claim says of the pair Min<X>/Max<X> *)
PairTokenized(operator, tokens, minop, maxop) ==
    LET toks == TokensFor(tokens, {minop, maxop})
        hasmin == minop \in DOMAIN operator
        hasmax == maxop \in DOMAIN operator
    IN  CASE hasmin /\ hasmax /\ operator[minop] = operator[maxop] ->
               /\ Len(toks) = 1
               /\ toks[1].optype = Op_EQUAL
               /\ toks[1].value = operator[minop]
          [] hasmin /\ hasmax /\ operator[minop] # operator[maxop] ->
               /\ Len(toks) = 1
               /\ toks[1].optype = Op_RANGE
               /\ toks[1].kwargs = [v1 |-> operator[minop],
                                    v2 |-> operator[maxop]]
          [] hasmin /\ ~hasmax ->
               /\ Len(toks) = 1
               /\ toks[1].optype = Op_MIN
               /\ toks[1].value = operator[minop]
          [] ~hasmin /\ hasmax ->
               /\ Len(toks) = 1
               /\ toks[1].optype = Op_MAX
               /\ toks[1].value = operator[maxop]
          [] OTHER -> toks = <<>>

(* C16: MinLevel = m with MaxLevel = m gives exactly one token for the pair,
   an EQUAL, and no MIN or MAX; a Min*/Max* pair with different values gives
   one RANGE token, a lone Min* one MIN and a lone Max* one MAX; every
   operator is represented in exactly one token. *)
C16_TokenizePairs ==
    Called("tokenize") =>
        LET operator == last.arg.operator
            tokens   == last.ret
        IN  /\ PairTokenized(operator, tokens, "MinLevel", "MaxLevel")
            /\ PairTokenized(operator, tokens, "MinAdvanced", "MaxAdvanced")
            /\ \A op \in {"DifficultyLevel", "DifficultyAdvanced"} :
                  Len(TokensFor(tokens, {op})) =
                      IF op \in DOMAIN operator THEN 1 ELSE 0
            /\ \A i \in DOMAIN tokens : tokens[i].op \in DOMAIN operator

(* MinLevel = MaxLevel = 1 next to a MinAdvanced/MaxAdvanced pair of
   different texts: an EQUAL and a RANGE, two tokens in all *)
C16_Witness ==
    /\ Called("tokenize")
    /\ DOMAIN last.arg.operator =
          {"MinLevel", "MaxLevel", "MinAdvanced", "MaxAdvanced"}
    /\ last.arg.operator["MinLevel"] = 1
    /\ last.arg.operator["MaxLevel"] = 1
    /\ last.arg.operator["MinAdvanced"] # last.arg.operator["MaxAdvanced"]
    /\ Len(last.ret) = 2
    /\ last.ret[1].optype = Op_EQUAL
    /\ last.ret[2].optype = Op_RANGE

----------------------------------------------------------------------------
(* Entity._parse_adv *)

Text_resolved_q42  == <<"[", "I", "r", "o", "n", "]">>
Text_resolved_dq42 ==
    <<"[", "1", " ", "t", "o", " ", "[", "I", "r", "o", "n", "]", "]">>

ParsedWithIron ==
    /\ Called("parse_adv")
    /\ 42 \in DOMAIN last.arg.names
    /\ last.arg.names[42] = Text_Iron

(* every piece resolved on its own, in place *)
EachResolved(pieces, names) ==
    Concat([i \in DOMAIN pieces |-> Entity_parse_adv(pieces[i], names)])

(* C17 as stated: with quality 42 named Iron, "[q:42]" resolves to "[Iron]"
   and "[d:[q:42]]" to "[1 to [Iron]]"; in a text with several top-level
   markers each of them is replaced once, left to right. *)
C17_Original ==
    ParsedWithIron =>
        /\ last.arg.text = Text_q42 => last.ret = Text_resolved_q42
        /\ last.arg.text = Text_dq42 => last.ret = Text_resolved_dq42
        /\ last.ret = EachResolved(last.arg.pieces, last.arg.names)

(* C17 amended: the same where markers are nested in dice markers only and
   every id made of digits is one int() reads (decimal digits of any script,
   Int_max_str_digits of them at most); each match replaces the first
   occurrence of its text in the result so far, so after "[q:[q:42]]" or
   "[k:[q:42]]" a later "[q:42]" is left as it is and the substitution is
   made in the earlier marker; 42 written in decimal digits of another
   script, or after leading zeros, resolves as "42" does. *)
C17_ParseAdv ==
    ParsedWithIron =>
        /\ last.arg.text \in DecimalPieces => last.ret = Text_resolved_q42
        /\ last.arg.text = Text_q42 => last.ret = Text_resolved_q42
        /\ last.arg.text = Text_dq42 => last.ret = Text_resolved_dq42
        /\ Range(last.arg.pieces) \subseteq PlainPieces \cup DecimalPieces
              => last.ret = EachResolved(last.arg.pieces, last.arg.names)
        /\ last.arg.pieces = <<Text_qq42, Text_q42>>
              => last.ret = <<"{">> \o Text_resolved_q42 \o <<"}">>
                            \o Text_q42
        /\ last.arg.pieces = <<Text_kq42, Text_q42>>
              => last.ret = <<"[", "k", ":">> \o Text_resolved_q42 \o <<"]">>
                            \o Text_q42

(* what the code does outside that: an id that str.isdigit accepts and int()
   refuses (a superscript digit, or more than Int_max_str_digits digits)
   makes the call raise ValueError when the registry holds a Quality, at top
   level or nested in a dice marker, whatever the other markers; with an
   empty registry int() is not called and the id gets the placeholder *)
ParseAdv_IntRaises ==
    Called("parse_adv") =>
        /\ (/\ DOMAIN last.arg.names # {}
            /\ \E i \in DOMAIN last.arg.pieces :
                  last.arg.pieces[i] \in RaisingPieces)
              => last.ret = ValueError
        /\ ((\A i \in DOMAIN last.arg.pieces :
                  last.arg.pieces[i] \notin RaisingPieces)
             \/ DOMAIN last.arg.names = {})
              => last.ret # ValueError
        /\ (last.arg.names = <<>> /\ last.arg.text = Text_qlong)
              => last.ret = Format_noqfmt(SubSeq(Text_qlong, 4,
                                                 Len(Text_qlong) - 1))

(* "[q:" and Int_max_str_digits + 1 digits "]" parsed with the registry
   holding Iron: ValueError *)
ParseAdv_IntRaises_Witness ==
    /\ ParsedWithIron
    /\ last.arg.text = Text_qlong
    /\ last.ret = ValueError

(* "[d:[q:42]] + [q:42]" resolved to "[1 to [Iron]] + [Iron]" *)
C17_Witness ==
    /\ ParsedWithIron
    /\ last.arg.pieces = <<Text_dq42, Text_plus, Text_q42>>
    /\ last.ret = Text_resolved_dq42 \o Text_plus \o Text_resolved_q42

----------------------------------------------------------------------------
(* The order of the Effects of an Outcome *)

(* the Effects of the outcomes chosen by a do(), in the order it chose them *)
RECURSIVE EffectsApplied(_, _)
EffectsApplied(action, outcomes) ==
    IF outcomes = <<>> THEN <<>>
    ELSE action.outdict[Head(outcomes)].effects
         \o EffectsApplied(action, Tail(outcomes))

(* the left-to-right fold of Effect.apply over effects[i..] *)
RECURSIVE ApplyFold(_, _, _)
ApplyFold(effects, i, sv) ==
    IF i > Len(effects) THEN sv
    ELSE ApplyFold(effects, i + 1,
                   Effect_apply(effects[i], sv, qualities).save)

PlainCounter(qid) ==
    ~qualities[qid].usepyramidnumbers /\ qualities[qid].cap = 0

(* C18: do() applies every Effect of the chosen Outcome in the Outcome's
   order, each on the Save left by the one before: the Save it leaves is the
   left-to-right fold of Effect.apply over the effects.  SetToExactly = 2
   followed by Level = +1 on the same counter ends at 3, the reverse order
   at 2. *)
C18_EffectsInOrder ==
    Called("do") =>
        LET a  == last.arg.action
            es == a.outdict["DefaultEvent"].effects
        IN  /\ save = ApplyFold(EffectsApplied(a, last.ret.outcomes), 1,
                                last.pre)
            /\ (last.ret.outcomes = <<"DefaultEvent">> /\ PlainCounter(1)) =>
                  /\ es = <<Eff(1, "SetToExactly", 2), Eff(1, "Level", 1)>>
                        => LevelOf(save, 1) = 3
                  /\ es = <<Eff(1, "Level", 1), Eff(1, "SetToExactly", 2)>>
                        => LevelOf(save, 1) = 2

(* SetToExactly = 2 then Level = +1 on a counter that was not at 2: it ends
   at 3 *)
C18_Witness ==
    /\ Called("do")
    /\ last.ret.outcomes = <<"DefaultEvent">>
    /\ last.arg.action.outdict["DefaultEvent"].effects
          = <<Eff(1, "SetToExactly", 2), Eff(1, "Level", 1)>>
    /\ PlainCounter(1)
    /\ LevelOf(last.pre, 1) = 0
    /\ LevelOf(save, 1) = 3

----------------------------------------------------------------------------
(* What Effect.apply leaves alone *)

(* C19: Effect.apply changes nothing but the value and xp of the SaveQuality
   of the Effect's own quality: every entry keeps its id and its modifier,
   the entries of the other qualities are unchanged, and the only entry that
   can appear is a new one for the Effect's quality. *)
C19_ApplyFrame ==
    Called("apply") =>
        LET qid == last.arg.quality
        IN  /\ Len(save) >= Len(last.pre)
            /\ \A i \in 1..Len(last.pre) :
                  /\ save[i].id = last.pre[i].id
                  /\ save[i].modifier = last.pre[i].modifier
                  /\ last.pre[i].id # qid => save[i] = last.pre[i]
            /\ \A i \in (Len(last.pre) + 1)..Len(save) :
                  /\ i = Len(last.pre) + 1
                  /\ save[i].id = qid
                  /\ save[i].modifier = 0
                  /\ ~Present(last.pre, qid)
            /\ \A other \in QualityIds \ {qid} :
                  /\ Present(save, other) <=> Present(last.pre, other)
                  /\ LevelOf(save, other) = LevelOf(last.pre, other)
                  /\ XPOf(save, other) = XPOf(last.pre, other)

(* a SetToExactly that changed the value of quality 1, which carries a
   modifier, in a Save that also holds quality 2 *)
C19_Witness ==
    /\ Called("apply")
    /\ last.arg.quality = 1
    /\ "SetToExactly" \in DOMAIN last.arg.operator
    /\ Present(last.pre, 1)
    /\ Present(last.pre, 2)
    /\ EntryOf(last.pre, 1).modifier = 1
    /\ LevelOf(save, 1) # LevelOf(last.pre, 1)
    /\ LevelOf(save, 2) >= 1

----------------------------------------------------------------------------
(* A quality with no entry in the Save *)

Level0(qid) == [id |-> qid, Level |-> 0, XP |-> 0, modifier |-> 0]

(* C20: a quality with no entry in the Save behaves as level 0: check
   compares its bounds with 0 and adds nothing to the Save; apply appends a
   new entry at level 0, modifier 0, xp 0, and applies the effect to it. *)
C20_AbsentIsLevel0 ==
    /\ (Called("check") /\ ~Present(last.pre, last.arg.quality)) =>
          /\ save = last.pre
          /\ last.ret = Requirement_check_ops(last.arg.operator,
                                              Level0(last.arg.quality))
          /\ OpNames(last.arg) \subseteq {"MinLevel", "MaxLevel"} =>
                last.ret = IF MinMaxFails(last.arg, 0) THEN LOCKED ELSE DEFAULT
    /\ (Called("apply") /\ ~Present(last.pre, last.arg.quality)) =>
          LET qid  == last.arg.quality
              with == Append(last.pre, Level0(qid))
          IN  /\ Len(save) = Len(last.pre) + 1
              /\ save[Len(save)].id = qid
              /\ save[Len(save)].modifier = 0
              /\ save = Effect_apply(last.arg, with, qualities).save
              /\ last.ret = Effect_apply(last.arg, with, qualities).calls
              /\ (DOMAIN last.arg.operator = {"Level"}
                  /\ last.arg.operator["Level"] >= 0
                  /\ PlainCounter(qid))
                 => /\ LevelOf(save, qid) = last.arg.operator["Level"]
                    /\ XPOf(save, qid) = 0

(* Level = +2 applied for a quality the Save had no entry for: the Save has
   one more entry, at level 2 *)
C20_Witness ==
    /\ Called("apply")
    /\ ~Present(last.pre, last.arg.quality)
    /\ DOMAIN last.arg.operator = {"Level"}
    /\ last.arg.operator["Level"] = 2
    /\ Len(save) = Len(last.pre) + 1
    /\ LevelOf(save, last.arg.quality) = 2

----------------------------------------------------------------------------
(* The cost of a level in pyramid numbers *)

(* a pyramid quality with no PyramidNumberIncreaseLimit and no cap *)
FreePyramid(q) ==
    q.usepyramidnumbers /\ q.pyramidnumberincreaselimit = 0 /\ q.cap = 0

(* C21: for a pyramid quality with no configured limit and no cap, from xp 0
   the level V + 1 is reached from level V by exactly V + 1 unit increments
   (V + 1 increments reach it, V do not), and increase_by(N * (N + 1) / 2)
   from value 0, xp 0 ends at value N, xp 0. *)
C21_TriangularCost ==
    (/\ Called("increase_by")
     /\ FreePyramid(qualities[last.arg.quality])
     /\ XPOf(last.pre, last.arg.quality) = 0)
    => LET qid == last.arg.quality
           V   == LevelOf(last.pre, qid)
           n   == last.arg.value
       IN  /\ n = V + 1 => LevelOf(save, qid) = V + 1 /\ XPOf(save, qid) = 0
           /\ (0 <= n /\ n <= V) => LevelOf(save, qid) = V
           /\ V = 0 =>
                 \A N \in 0..MaxValue :
                    n = Triangular(N) =>
                       LevelOf(save, qid) = N /\ XPOf(save, qid) = 0

(* six increments from value 0 ended at value 3, xp 0 *)
C21_Witness ==
    /\ Called("increase_by")
    /\ FreePyramid(qualities[last.arg.quality])
    /\ Present(last.pre, last.arg.quality)
    /\ LevelOf(last.pre, last.arg.quality) = 0
    /\ XPOf(last.pre, last.arg.quality) = 0
    /\ last.arg.value = 6
    /\ LevelOf(save, last.arg.quality) = 3
    /\ XPOf(save, last.arg.quality) = 0

----------------------------------------------------------------------------
(* Names that are not operators of a Requirement *)

Unknown(item) == \A i \in DOMAIN Requirement_OPS : Requirement_OPS[i] # item.op

Known(item) == ~Unknown(item)

(* C22: a name of the raw data that is not one of the six operators of a
   Requirement is carried through tokenization, _tokenize emitting an INVALID
   token that holds the name and its value, and it never affects check. *)
C22_InvalidToken ==
    Called("build") =>
        LET data == last.arg.data
        IN  /\ \A i \in DOMAIN data :
                  Unknown(data[i]) =>
                     \E t \in DOMAIN last.ret.tokens :
                        /\ last.ret.tokens[t].optype = Op_INVALID
                        /\ last.ret.tokens[t].op = data[i].op
                        /\ last.ret.tokens[t].value = data[i].value
            /\ last.ret.check =
                  Requirement_check([quality |-> 1,
                                     operator |-> SelectSeq(data, Known)],
                                    last.pre)

(* what the code does with such a name: __init__ drops it, so that it has no
   token at all and neither the tokens nor check depend on it *)
C22_UnknownDropped ==
    Called("build") =>
        LET data  == last.arg.data
            known == SelectSeq(data, Known)
        IN  /\ \A t \in DOMAIN last.ret.tokens :
                  /\ last.ret.tokens[t].optype # Op_INVALID
                  /\ \E i \in DOMAIN known : known[i].op = last.ret.tokens[t].op
            /\ last.ret.tokens =
                  Requirement_tokenize(DictOf(known), last.arg.quality)
            /\ last.ret.check =
                  Requirement_check([quality |-> 1, operator |-> known],
                                    last.pre)

(* a Requirement built from MinLevel and an unknown name: one token, MIN *)
C22_Dropped_Witness ==
    /\ Called("build")
    /\ Len(last.arg.data) = 2
    /\ last.arg.data[1].op = "MinLevel"
    /\ Unknown(last.arg.data[2])
    /\ Len(last.ret.tokens) = 1
    /\ last.ret.tokens[1].optype = Op_MIN

----------------------------------------------------------------------------
(* check reads the Save *)

(* C23: Requirement.check and Action.check leave the Save unchanged in every
   case, also when the quality checked has no entry: no SaveQuality is added
   and no value, xp or modifier changes. *)
C23_CheckFrame ==
    (Called("check") \/ Called("check_all")) => save = last.pre

(* an Action's check that passed on a quality with no entry in the Save *)
C23_Witness ==
    /\ Called("check_all")
    /\ Len(last.arg) >= 2
    /\ ~Present(last.pre, last.arg[1].quality)
    /\ last.ret = DEFAULT
    /\ ~Present(save, last.arg[1].quality)

----------------------------------------------------------------------------
(* No challenge is ever resolved *)

(* C24: Action.check never returns SUCCESS or FAILURE, only LOCKED or DEFAULT,
   as Requirement.check returns only those two; so in every run of Action.do
   the outcome applied is the DefaultEvent or the RareDefaultEvent, never the
   SuccessEvent or the RareSuccessEvent, and every label of the result is
   "DEFAULT" or "RAREDEFAULT". *)
C24_OnlyLockedOrDefault ==
    /\ Called("check") => last.ret \in {LOCKED, DEFAULT}
    /\ Called("check_all") => last.ret \in {LOCKED, DEFAULT}
    /\ Called("do") =>
          /\ \A i \in DOMAIN last.ret.outcomes :
                last.ret.outcomes[i] \in {"DefaultEvent", "RareDefaultEvent"}
          /\ \A i \in DOMAIN last.ret.results :
                last.ret.results[i] \in {"DEFAULT", "RAREDEFAULT"}

(* an Action with all four outcomes, done twice: the DefaultEvent one time
   and the RareDefaultEvent the other *)
C24_Witness ==
    /\ Called("do")
    /\ DOMAIN last.arg.action.outdict = Range(Action_OUTCOME_TYPES)
    /\ Len(last.ret.results) = 2
    /\ Range(last.ret.outcomes) = {"DefaultEvent", "RareDefaultEvent"}
    /\ Range(last.ret.results) = {"DEFAULT", "RAREDEFAULT"}

----------------------------------------------------------------------------
(* The range of xp *)

(* 0 <= xp <= pyramid_limit on every entry of a quality that uses pyramid
   numbers *)
XPInRange(sv, reg) ==
    \A i \in DOMAIN sv :
        reg[sv[i].id].usepyramidnumbers =>
            /\ 0 <= sv[i].XP
            /\ sv[i].XP <= Min(sv[i].Level,
                               IF reg[sv[i].id].pyramidnumberincreaselimit # 0
                               THEN reg[sv[i].id].pyramidnumberincreaselimit
                               ELSE sv[i].Level)

(* C25: for every quality using pyramid numbers, 0 <= xp <= pyramid_limit
   (= min(value, configured limit or value)) holds in every state reached by
   any sequence of Effect.apply calls from a Save in which it holds, also
   when the value is pinned at the quality's cap. *)
C25_XPInRange == XPInRange(save, qualities)

(* a Level effect applied to a pyramid quality at its cap with xp at the
   limit: the value stayed at the cap *)
C25_Witness ==
    /\ Called("apply")
    /\ qualities[last.arg.quality].usepyramidnumbers
    /\ qualities[last.arg.quality].cap # 0
    /\ Present(last.pre, last.arg.quality)
    /\ LevelOf(last.pre, last.arg.quality) = qualities[last.arg.quality].cap
    /\ XPOf(last.pre, last.arg.quality) =
          SaveQuality_pyramid_limit(EntryOf(last.pre, last.arg.quality),
                                    qualities[last.arg.quality])
    /\ XPOf(last.pre, last.arg.quality) > 0
    /\ DOMAIN last.arg.operator = {"Level"}
    /\ last.arg.operator["Level"] >= 1
    /\ LevelOf(save, last.arg.quality) = qualities[last.arg.quality].cap

----------------------------------------------------------------------------
(* Pyramid numbers and negative amounts *)

(* C26: for a quality using pyramid numbers, increase_by(n) with n <= 0
   changes neither the value nor xp: a Level effect with a negative amount
   never lowers a pyramid-number quality. *)
C26_NoPyramidDecrease ==
    /\ (/\ Called("increase_by")
        /\ qualities[last.arg.quality].usepyramidnumbers
        /\ last.arg.value <= 0)
       => save = last.pre
    /\ (/\ Called("apply")
        /\ qualities[last.arg.quality].usepyramidnumbers
        /\ "Level" \in DOMAIN last.arg.operator
        /\ "SetToExactly" \notin DOMAIN last.arg.operator
        /\ last.arg.operator["Level"] < 0)
       => /\ LevelOf(save, last.arg.quality)
               = LevelOf(last.pre, last.arg.quality)
          /\ XPOf(save, last.arg.quality) = XPOf(last.pre, last.arg.quality)

(* a Level effect of -1 or less applied to a pyramid quality with a value and
   xp above 0 *)
C26_Witness ==
    /\ Called("apply")
    /\ qualities[last.arg.quality].usepyramidnumbers
    /\ DOMAIN last.arg.operator = {"Level"}
    /\ last.arg.operator["Level"] < 0
    /\ last.ret = <<"increase_by">>
    /\ LevelOf(last.pre, last.arg.quality) >= 2
    /\ XPOf(last.pre, last.arg.quality) >= 1
    /\ save = last.pre

----------------------------------------------------------------------------
(* SetToExactly and xp *)

(* an Effect with SetToExactly applied with its guards passing *)
SetToExactlyApplied ==
    /\ Called("apply")
    /\ "SetToExactly" \in DOMAIN last.arg.operator
    /\ ~GuardFails(last.arg, LevelOf(last.pre, last.arg.quality))

(* the Effect also counts xp up: a positive Level on a pyramid quality *)
CountsUp(effect) ==
    /\ qualities[effect.quality].usepyramidnumbers
    /\ "Level" \in DOMAIN effect.operator
    /\ effect.operator["Level"] > 0

(* C27 as stated: applying a SetToExactly effect whose guards pass always
   leaves the quality's xp at 0, also when the value write is discarded
   because the target is negative (value unchanged, xp = 0 afterwards). *)
C27_Original ==
    SetToExactlyApplied =>
        /\ XPOf(save, last.arg.quality) = 0
        /\ last.arg.operator["SetToExactly"] < 0 =>
              LevelOf(save, last.arg.quality)
                 = LevelOf(last.pre, last.arg.quality)

(* C27 amended: the same for an Effect that carries no Level beside its
   SetToExactly; when it carries Level = n as well, increase_by(n) runs after
   set_to, and on a pyramid quality with n > 0 xp counts up again from 0 (it
   is n, or less after a level-up), xp being 0 in every other case. *)
C27_SetToExactlyResetsXP ==
    SetToExactlyApplied =>
        LET qid == last.arg.quality
            v   == last.arg.operator["SetToExactly"]
            set == IF v < 0 THEN LevelOf(last.pre, qid)
                   ELSE IF AtCap(qualities[qid], v) THEN qualities[qid].cap
                   ELSE v
        IN  /\ ~CountsUp(last.arg) => XPOf(save, qid) = 0
            /\ CountsUp(last.arg) =>
                  /\ XPOf(save, qid) <= last.arg.operator["Level"]
                  /\ XPOf(save, qid) < last.arg.operator["Level"]
                        => (LevelOf(save, qid) > set \/ AtCap(qualities[qid], set))
            /\ "Level" \notin DOMAIN last.arg.operator => LevelOf(save, qid) = set

(* SetToExactly = -1: the value stayed above 0 and xp went from above 0 to 0 *)
C27_Witness ==
    /\ SetToExactlyApplied
    /\ "Level" \notin DOMAIN last.arg.operator
    /\ last.arg.operator["SetToExactly"] < 0
    /\ XPOf(last.pre, last.arg.quality) > 0
    /\ XPOf(save, last.arg.quality) = 0
    /\ LevelOf(save, last.arg.quality) = LevelOf(last.pre, last.arg.quality)
    /\ LevelOf(save, last.arg.quality) > 0

----------------------------------------------------------------------------
(* The entries of the Save *)

Ids(sv) == {sv[i].id : i \in DOMAIN sv}

OnePerId(sv) == \A i, j \in DOMAIN sv : sv[i].id = sv[j].id => i = j

(* the qualities targeted by the Effects of the outcomes a do() applied *)
Targeted(action, outcomes) ==
    UNION {{action.outdict[outcomes[i]].effects[k].quality :
               k \in DOMAIN action.outdict[outcomes[i]].effects} :
           i \in DOMAIN outcomes}

(* C28: in every state reached by any sequence of Effect.apply and Action.do
   calls from a Save with at most one SaveQuality per quality id, the Save
   still has at most one SaveQuality per id, no entry has been removed, and
   the only entries added are for qualities targeted by an applied Effect,
   one entry each however many times the Effect is applied. *)
C28_OneEntryPerId ==
    /\ OnePerId(save)
    /\ (Called("apply") \/ Called("do")) =>
          /\ Len(save) >= Len(last.pre)
          /\ \A i \in DOMAIN last.pre : save[i].id = last.pre[i].id
    /\ Called("apply") => Ids(save) = Ids(last.pre) \cup {last.arg.quality}
    /\ Called("do") =>
          Ids(save) = Ids(last.pre)
                      \cup Targeted(last.arg.action, last.ret.outcomes)

(* a do() that applied an Effect twice or more on a quality with no entry:
   the Save gained one entry *)
C28_Witness ==
    /\ Called("do")
    /\ Len(last.ret.results) >= 2
    /\ last.ret.applied >= 2
    /\ Len(last.pre) = 1
    /\ Targeted(last.arg.action, last.ret.outcomes) \cap Ids(last.pre) = {}
    /\ Cardinality(Targeted(last.arg.action, last.ret.outcomes)) = 1
    /\ Len(save) = 2

----------------------------------------------------------------------------
(* Selling down to a floor *)

(* the Action's only requirement is MinLevel = m (m >= 1) on a quality and
   its only outcome a DefaultEvent with the single effect Level = -1 on it *)
IsSell(action) ==
    /\ Len(action.requirements) = 1
    /\ Len(action.requirements[1].operator) = 1
    /\ action.requirements[1].operator[1].op = "MinLevel"
    /\ action.requirements[1].operator[1].value >= 1
    /\ DOMAIN action.outdict = {"DefaultEvent"}
    /\ action.outdict["DefaultEvent"].effects
          = <<Eff(action.requirements[1].quality, "Level", -1)>>

(* C29: for a quality Q without pyramid numbers and such an Action,
   do(repeats = r) from Q's value v runs exactly min(r, max(0, v - m + 1))
   iterations, returns that many labels and ends with Q's value at v minus
   that count; the loop locks as soon as the value is below m. *)
C29_SellLoop ==
    (/\ Called("do")
     /\ IsSell(last.arg.action)
     /\ ~qualities[last.arg.action.requirements[1].quality].usepyramidnumbers)
    => LET Q     == last.arg.action.requirements[1].quality
           m     == last.arg.action.requirements[1].operator[1].value
           r     == last.arg.repeats
           v     == LevelOf(last.pre, Q)
           count == Min(r, Max(0, v - m + 1))
       IN  /\ Len(last.ret.results) = count
           /\ last.ret.applied = count
           /\ LevelOf(save, Q) = v - count
           /\ count < r => LevelOf(save, Q) < m /\ last.ret.locked = count + 1
           /\ count = r => last.ret.locked = 0

(* do(2) with MinLevel = 2 from value 2: one iteration, then locked at 1 *)
C29_Witness ==
    /\ Called("do")
    /\ IsSell(last.arg.action)
    /\ ~qualities[last.arg.action.requirements[1].quality].usepyramidnumbers
    /\ last.arg.action.requirements[1].operator[1].value = 2
    /\ last.arg.repeats = 2
    /\ LevelOf(last.pre, last.arg.action.requirements[1].quality) = 2
    /\ Len(last.ret.results) = 1
    /\ LevelOf(save, last.arg.action.requirements[1].quality) = 1

----------------------------------------------------------------------------
(* The order of the requirements *)

(* the lists with the same requirements as s in any order *)
Reorderings(s) ==
    {[i \in 1..Len(s) |-> s[f[i]]] :
        f \in {g \in [1..Len(s) -> 1..Len(s)] :
                  \A i, j \in 1..Len(s) : g[i] = g[j] => i = j}}

(* C30: the result of Action.check does not depend on the order of the
   Action's requirements: for every Save and every permutation of the list,
   check returns the same classification, although the evaluation stops at
   the first LOCKED requirement. *)
C30_CheckOrder ==
    Called("check_all") =>
        \A p \in Reorderings(last.arg) :
            BaseEvent_check(p, last.pre) = last.ret

(* three requirements, the first passing and the last one LOCKED *)
C30_Witness ==
    /\ Called("check_all")
    /\ Len(last.arg) = 3
    /\ Requirement_check(last.arg[1], last.pre) = DEFAULT
    /\ Requirement_check(last.arg[2], last.pre) = DEFAULT
    /\ Requirement_check(last.arg[3], last.pre) = LOCKED
    /\ last.ret = LOCKED
    /\ Cardinality(Reorderings(last.arg)) = 6

====
